---- MODULE Spec2Model ----
(***************************************************************************)
(* Model of pdf_watcher.py: the company / insurance-type classifier        *)
(* (PDFMetadataExtractor), the .meta index store (MetaFileManager), the    *)
(* watchdog event handler (PDFEventHandler) and the startup pass           *)
(* (process_existing_pdfs, main).                                          *)
(*                                                                         *)
(* Every Python str is a sequence of one-token strings, so that substring  *)
(* containment, strip(), Path.name, Path.stem and Path.suffix are computed *)
(* and not assumed.  An Optional[...] is a record with a `some` field.     *)
(***************************************************************************)
EXTENDS Integers, Sequences, FiniteSets, TLC

VARIABLES
    companies_config, \* PDFMetadataExtractor.companies_config (immutable)
    fs,               \* the file system: path -> what is at that path
    meta_file,        \* content of MetaFileManager.meta_file_path on disk
    entries,          \* MetaFileManager.entries (insertion-ordered dict)
    pc,               \* position of main()
    pdf_files,        \* process_existing_pdfs: listed files not yet processed
    count,            \* process_existing_pdfs: local counter `count`
    event_queue,      \* watchdog events emitted and not yet dispatched
    ops,              \* number of operations done so far by the outside world
    saves,            \* number of times save() has written the index file
    produced,         \* process_existing_pdfs: the entries built in the pass
    skipped,          \* process_existing_pdfs: the listed files left out
    last,             \* the last call made on the program, with its pre-state
    added,            \* the latest addition of a new document by a create event
    pdf_dir,          \* main(): what the directory argument names
    config_path,      \* main(): what is at the companies.json path
    exit_code,        \* exit status of the process, -1 while it runs
    listed,           \* process_existing_pdfs: the files the listing returned
    disk,             \* whether the index file can be opened and written
    save_errors,      \* number of "Error saving .meta file" lines printed
    observer,         \* the watchdog Observer: idle, running, stopping
                      \* (stop() called, thread not yet joined) or stopped
    handling          \* the event whose handler the observer thread runs

vars == <<companies_config, fs, meta_file, entries, pc, pdf_files, count,
          event_queue, ops, saves, produced, skipped, last, added, pdf_dir,
          config_path, exit_code, listed, disk, save_errors, observer,
          handling>>

-----------------------------------------------------------------------------
(* Bounds *)

MaxFsOps == 3

MaxPages == 2

MaxCalls == 4

-----------------------------------------------------------------------------
(* Python values *)

None == [some |-> FALSE]

Some(x) == [some |-> TRUE, val |-> x]

\* Python truthiness of an Optional[str]: None and "" are falsy
Truthy(o) == o.some /\ o.val # <<>>

\* `needle in haystack` for str
IsSubstring(needle, haystack) ==
    \E i \in 0..(Len(haystack) - Len(needle)) :
        SubSeq(haystack, i + 1, i + Len(needle)) = needle

Whitespace == {" ", "\n"}

RECURSIVE LStrip(_)
LStrip(s) ==
    IF s # <<>> /\ Head(s) \in Whitespace THEN LStrip(Tail(s)) ELSE s

RECURSIVE RStrip(_)
RStrip(s) ==
    IF s # <<>> /\ s[Len(s)] \in Whitespace
    THEN RStrip(SubSeq(s, 1, Len(s) - 1))
    ELSE s

\* str.strip()
Strip(s) == RStrip(LStrip(s))

\* str.lower() on the tokens used in file names
LowerTok(c) == IF c \in {"PDF", "Pdf"} THEN "pdf" ELSE c

Lower(s) == [i \in 1..Len(s) |-> LowerTok(s[i])]

\* str.rfind('.') as a 1-based index, 0 when there is no dot
RECURSIVE RFindDotFrom(_, _)
RFindDotFrom(s, i) ==
    IF i = 0 THEN 0
    ELSE IF s[i] = "." THEN i
    ELSE RFindDotFrom(s, i - 1)

RFindDot(s) == RFindDotFrom(s, Len(s))

\* PurePath.suffix: the last dot starts the suffix unless it is the first
\* or the last character of the name
PathSuffix(name) ==
    LET i == RFindDot(name)
    IN  IF 1 < i /\ i < Len(name) THEN SubSeq(name, i, Len(name)) ELSE <<>>

\* PurePath.stem
PathStem(name) ==
    LET i == RFindDot(name)
    IN  IF 1 < i /\ i < Len(name) THEN SubSeq(name, 1, i - 1) ELSE name

\* PurePath.name: the final path component, extension included
PathName(path) == path.name

-----------------------------------------------------------------------------
(* Configuration (companies.json) and documents *)

Coord(page, box) == [page |-> page, box |-> box]

InsType(type_id, text_representations) ==
    [type_id |-> type_id, text_representations |-> text_representations]

\* A profile whose "company" key is missing has company = <<>>: detect_company
\* reads it with .get("company", "") and detect_insurance_type never compares
\* it equal to a truthy name.
ProfileA ==
    [company |-> <<"A">>,
     coordinates |-> <<Coord(1, "r1"), Coord(2, "r1")>>,
     insurance_types |-> <<InsType(<<"t1">>, << <<"x">> >>),
                           InsType(<<"t2">>, << <<"z">>, <<"y">> >>)>>]

ProfileB ==
    [company |-> <<"B">>,
     coordinates |-> <<Coord(3, "r1"), Coord(1, "r1"), Coord(2, "r2")>>,
     insurance_types |-> <<InsType(<<"t2">>, << <<"y">> >>),
                           InsType(<<"t1">>, << <<"x">> >>)>>]

\* page 0 in the configuration becomes page_num -1
ProfileBZero ==
    [company |-> <<"B">>,
     coordinates |-> <<Coord(0, "r1"), Coord(2, "r1"), Coord(1, "r2")>>,
     insurance_types |-> <<InsType(<<"t2">>, << <<"y">> >>)>>]

\* "company" key missing
ProfileNoName ==
    [company |-> <<>>,
     coordinates |-> <<Coord(2, "r2")>>,
     insurance_types |-> <<InsType(<<"t1">>, << <<"x">> >>)>>]

\* an insurance type whose identifier is the empty string
ProfileAEmptyType ==
    [company |-> <<"A">>,
     coordinates |-> <<Coord(1, "r1")>>,
     insurance_types |-> <<InsType(<<>>, << <<"y">> >>),
                           InsType(<<"t1">>, << <<"x">> >>)>>]

Configs ==
    { <<ProfileA, ProfileB>>,
      <<ProfileBZero, ProfileA>>,
      <<ProfileNoName, ProfileAEmptyType, ProfileB>> }

Boxes == {"r1", "r2"}

RegionTexts == { <<>>, <<"A">>, <<" ", "B">>, <<"A", "B">> }

FullTexts == { <<>>, <<"x">>, <<"y">>, <<"y", "x">> }

PageSet == [Boxes -> RegionTexts]

\* A PDF as pdfplumber sees it: `corrupt` when pdfplumber.open raises, the
\* raw text of each box of each page, the raw text of the whole first page,
\* the raw text of the pages after the first, the (page, box) pairs for which
\* crop or extract_text raises, and whether extract_text raises on the whole
\* first page.
PdfDoc(pages, full) ==
    [corrupt |-> FALSE, pages |-> pages, full |-> full, later |-> <<>>,
     bad |-> {}, full_raises |-> FALSE]

CorruptDoc ==
    [corrupt |-> TRUE, pages |-> <<>>, full |-> <<>>, later |-> <<>>,
     bad |-> {}, full_raises |-> FALSE]

\* two-page documents of company "A" in which the extraction of the first
\* region, of the text of the first page, or of both, raises
FailingDocs ==
    { [PdfDoc(<< [b \in Boxes |-> <<"A">>], [b \in Boxes |-> <<"A">>] >>,
              <<"x">>) EXCEPT !.bad = bad, !.full_raises = f] :
        bad \in {{}, {<<1, "r1">>}, {<<1, "r1">>, <<2, "r1">>},
                 {<<2, "r2">>}},
        f \in BOOLEAN }

\* two-page documents of company "A" with a phrase on the second page
LaterDocs ==
    { [PdfDoc(<< [b \in Boxes |-> IF b = "r1" THEN <<"A">> ELSE <<>>],
                 [b \in Boxes |-> <<>>] >>, t) EXCEPT !.later = l] :
        t \in FullTexts, l \in {<<"x">>, <<"y">>} }

Docs ==
    {CorruptDoc} \cup {PdfDoc(<<>>, <<>>)} \cup LaterDocs \cup FailingDocs \cup
    UNION { {PdfDoc(ps, t) : ps \in [1..n -> PageSet], t \in FullTexts} :
            n \in 1..MaxPages }

-----------------------------------------------------------------------------
(* PDFMetadataExtractor *)

\* extract_text_from_region: None when the page does not exist or when
\* pdfplumber raises; page_num is 0-indexed
extract_text_from_region(doc, box, page_num) ==
    IF doc.corrupt THEN None
    ELSE IF page_num >= Len(doc.pages) \/ page_num < 0 THEN None
    ELSE IF <<page_num + 1, box>> \in doc.bad THEN None
    ELSE Some(Strip(doc.pages[page_num + 1][box]))

\* extract_full_page_text joining the text of every page
extract_full_page_text_all_pages(doc) ==
    IF doc.corrupt THEN <<>>
    ELSE IF 0 >= Len(doc.pages) THEN <<>>
    ELSE IF doc.full_raises THEN <<>>
    ELSE doc.full \o doc.later

\* extract_full_page_text with page_num = 0
extract_full_page_text(doc) ==
    IF doc.corrupt THEN <<>>
    ELSE IF 0 >= Len(doc.pages) THEN <<>>
    ELSE IF doc.full_raises THEN <<>>
    ELSE doc.full

\* ScanCoordinates leaving the loop (break) at a region whose page is absent
RECURSIVE ScanCoordinatesBreak(_, _, _, _)
ScanCoordinatesBreak(doc, company_name, coordinates, j) ==
    IF j > Len(coordinates) THEN None
    ELSE LET coord == coordinates[j]
             page  == coord.page - 1
             text  == extract_text_from_region(doc, coord.box, page)
         IN  IF ~text.some THEN None
             ELSE IF IsSubstring(company_name, text.val)
                  THEN Some(company_name)
                  ELSE ScanCoordinatesBreak(doc, company_name, coordinates,
                                            j + 1)

\* ScanCoordinates with the operands of `in` exchanged
RECURSIVE ScanCoordinatesSwapped(_, _, _, _)
ScanCoordinatesSwapped(doc, company_name, coordinates, j) ==
    IF j > Len(coordinates) THEN None
    ELSE LET coord == coordinates[j]
             page  == coord.page - 1
             text  == extract_text_from_region(doc, coord.box, page)
         IN  IF ~text.some
             THEN ScanCoordinatesSwapped(doc, company_name, coordinates, j + 1)
             ELSE IF IsSubstring(text.val, company_name)
                  THEN Some(company_name)
                  ELSE ScanCoordinatesSwapped(doc, company_name, coordinates,
                                              j + 1)

\* the inner loop of detect_company over `coordinates`, from index j on
RECURSIVE ScanCoordinates(_, _, _, _)
ScanCoordinates(doc, company_name, coordinates, j) ==
    IF j > Len(coordinates) THEN None
    ELSE LET coord == coordinates[j]
             page  == coord.page - 1
             text  == extract_text_from_region(doc, coord.box, page)
         IN  IF ~text.some
             THEN ScanCoordinates(doc, company_name, coordinates, j + 1)
             ELSE IF IsSubstring(company_name, text.val)
                  THEN Some(company_name)
                  ELSE ScanCoordinates(doc, company_name, coordinates, j + 1)

\* ScanCompanies keeping the last matching profile instead of the first
RECURSIVE ScanCompaniesLast(_, _, _)
ScanCompaniesLast(config, doc, i) ==
    IF i > Len(config) THEN None
    ELSE LET rest == ScanCompaniesLast(config, doc, i + 1)
         IN  IF rest.some THEN rest
             ELSE ScanCoordinates(doc, config[i].company,
                                  config[i].coordinates, 1)

\* the outer loop of detect_company over companies_config, from index i on
RECURSIVE ScanCompanies(_, _, _)
ScanCompanies(config, doc, i) ==
    IF i > Len(config) THEN None
    ELSE LET r == ScanCoordinates(doc, config[i].company,
                                  config[i].coordinates, 1)
         IN  IF r.some THEN r ELSE ScanCompanies(config, doc, i + 1)

detect_company(config, doc) == ScanCompanies(config, doc, 1)

\* the lookup loop of detect_insurance_type: first profile with that name
RECURSIVE FindCompanyConfig(_, _, _)
FindCompanyConfig(config, company_name, i) ==
    IF i > Len(config) THEN None
    ELSE IF config[i].company = company_name THEN Some(config[i])
    ELSE FindCompanyConfig(config, company_name, i + 1)

\* `for text_repr in text_representations`, from index k on
RECURSIVE AnyRepr(_, _, _)
AnyRepr(text_representations, full_text, k) ==
    IF k > Len(text_representations) THEN FALSE
    ELSE IF IsSubstring(text_representations[k], full_text) THEN TRUE
    ELSE AnyRepr(text_representations, full_text, k + 1)

\* ScanTypes returning the phrase that matched instead of the type_id
RECURSIVE ScanTypesPhrase(_, _, _)
ScanTypesPhrase(insurance_types, full_text, t) ==
    IF t > Len(insurance_types) THEN None
    ELSE IF AnyRepr(insurance_types[t].text_representations, full_text, 1)
         THEN Some(insurance_types[t].text_representations[1])
         ELSE ScanTypesPhrase(insurance_types, full_text, t + 1)

\* ScanTypes falling back to the first configured type when none matches
RECURSIVE ScanTypesDefault(_, _, _)
ScanTypesDefault(insurance_types, full_text, t) ==
    IF t > Len(insurance_types)
    THEN (IF insurance_types = <<>> THEN None
          ELSE Some(insurance_types[1].type_id))
    ELSE IF AnyRepr(insurance_types[t].text_representations, full_text, 1)
         THEN Some(insurance_types[t].type_id)
         ELSE ScanTypesDefault(insurance_types, full_text, t + 1)

\* `for type_id, text_representations in insurance_types.items()`
RECURSIVE ScanTypes(_, _, _)
ScanTypes(insurance_types, full_text, t) ==
    IF t > Len(insurance_types) THEN None
    ELSE IF AnyRepr(insurance_types[t].text_representations, full_text, 1)
         THEN Some(insurance_types[t].type_id)
         ELSE ScanTypes(insurance_types, full_text, t + 1)

detect_insurance_type(config, doc, company_name) ==
    IF ~Truthy(company_name) THEN None
    ELSE LET company_config == FindCompanyConfig(config, company_name.val, 1)
         IN  IF ~company_config.some THEN None
             ELSE ScanTypes(company_config.val.insurance_types,
                            extract_full_page_text(doc), 1)

\* detect_insurance_type opening the document before it looks at its
\* argument
detect_insurance_type_reads_first(config, company_name) ==
    <<"extract_full_page_text">>

\* the calls detect_insurance_type makes on the document, in order: none
\* before the two early returns, extract_full_page_text after them
detect_insurance_type_reads(config, company_name) ==
    IF ~Truthy(company_name) THEN <<>>
    ELSE IF ~FindCompanyConfig(config, company_name.val, 1).some THEN <<>>
    ELSE <<"extract_full_page_text">>

MetaEntry(name, file_hash, company, insurance_type) ==
    [name |-> name, file_hash |-> file_hash, company |-> company,
     insurance_type |-> insurance_type]

\* What a call of extract_metadata ends in: an exception, or its locals
\* `company` and `insurance_type` and the returned Optional[MetaEntry]
Raised ==
    [called |-> TRUE, raised |-> TRUE, company |-> None,
     insurance_type |-> None, entry |-> None]

Returned(company, insurance_type, entry) ==
    [called |-> TRUE, raised |-> FALSE, company |-> company,
     insurance_type |-> insurance_type, entry |-> entry]

\* for the calls that do not run extract_metadata
NoOutcome ==
    [called |-> FALSE, raised |-> FALSE, company |-> None,
     insurance_type |-> None, entry |-> None]

\* compute_file_hash: open() raises when the path is not a regular file
compute_file_hash(node) ==
    IF node.kind = "file" THEN Some(node.digest) ELSE None

\* extract_metadata over accessors that let the exceptions of pdfplumber
\* through
extract_metadata_propagate(config, path, node) ==
    LET name      == PathName(path)
        file_hash == compute_file_hash(node)
    IN  IF ~file_hash.some THEN Raised
        ELSE IF node.doc.corrupt \/ node.doc.bad # {} \/ node.doc.full_raises
        THEN Raised
        ELSE LET company        == detect_company(config, node.doc)
                 insurance_type == detect_insurance_type(config, node.doc,
                                                         company)
             IN  IF ~Truthy(company) \/ ~Truthy(insurance_type)
                 THEN Returned(company, insurance_type, None)
                 ELSE Returned(company, insurance_type,
                               Some(MetaEntry(name, file_hash.val,
                                              company.val,
                                              insurance_type.val)))

\* extract_metadata testing only `not company` before building the entry
extract_metadata_company_only(config, path, node) ==
    LET name      == PathName(path)
        file_hash == compute_file_hash(node)
    IN  IF ~file_hash.some THEN Raised
        ELSE LET company        == detect_company(config, node.doc)
                 insurance_type == detect_insurance_type(config, node.doc,
                                                         company)
             IN  IF ~Truthy(company)
                 THEN Returned(company, insurance_type, None)
                 ELSE Returned(company, insurance_type,
                               Some(MetaEntry(name, file_hash.val,
                                              company.val,
                                              IF insurance_type.some
                                              THEN insurance_type.val
                                              ELSE <<>>)))

extract_metadata(config, path, node) ==
    LET name      == PathName(path)
        file_hash == compute_file_hash(node)
    IN  IF ~file_hash.some THEN Raised
        ELSE LET company        == detect_company(config, node.doc)
                 insurance_type == detect_insurance_type(config, node.doc,
                                                         company)
             IN  IF ~Truthy(company) \/ ~Truthy(insurance_type)
                 THEN Returned(company, insurance_type, None)
                 ELSE Returned(company, insurance_type,
                               Some(MetaEntry(name, file_hash.val,
                                              company.val,
                                              insurance_type.val)))

-----------------------------------------------------------------------------
(* MetaFileManager *)

\* `name in self.entries`
HasKey(dict, name) == \E i \in 1..Len(dict) : dict[i].name = name

\* the entries kept in a list that is appended to
DictSetAppend(dict, entry) == Append(dict, entry)

\* `self.entries[entry.name] = entry`: a dict keeps the position of a key
\* that is already present and appends a new key
DictSet(dict, entry) ==
    IF HasKey(dict, entry.name)
    THEN [i \in 1..Len(dict) |->
            IF dict[i].name = entry.name THEN entry ELSE dict[i]]
    ELSE Append(dict, entry)

\* `del self.entries[name]`
RECURSIVE DictDel(_, _)
DictDel(dict, name) ==
    IF dict = <<>> THEN <<>>
    ELSE IF Head(dict).name = name THEN DictDel(Tail(dict), name)
    ELSE <<Head(dict)>> \o DictDel(Tail(dict), name)

\* save() writing the company line before the hash line
EntryBytesSwapped(entry) ==
    <<"---", "\n">> \o entry.name \o <<"\n">> \o entry.company \o <<"\n">>
        \o entry.file_hash \o <<"\n">> \o entry.insurance_type \o <<"\n">>

\* the five f.write calls of save() for one entry
EntryBytes(entry) ==
    <<"---", "\n">> \o entry.name \o <<"\n">> \o entry.file_hash \o <<"\n">>
        \o entry.company \o <<"\n">> \o entry.insurance_type \o <<"\n">>

\* what save() leaves in the file: open(..., 'w') truncates, then one block
\* per entry in dict order
RECURSIVE SaveBytes(_)
SaveBytes(dict) ==
    IF dict = <<>> THEN <<>>
    ELSE EntryBytes(Head(dict)) \o SaveBytes(Tail(dict))

\* The store and its file, whether the call wrote the file, and whether
\* save() caught an exception
Store(dict, file, saved) ==
    [entries |-> dict, meta_file |-> file, saved |-> saved, error |-> FALSE]

\* save() ending in its `except Exception` branch: the error is printed and
\* the call returns
SaveFailed(dict, file) ==
    [entries |-> dict, meta_file |-> file, saved |-> FALSE, error |-> TRUE]

\* save() opening the file in append mode
save_append(dict, file) == Store(dict, file \o SaveBytes(dict), TRUE)

\* save(): when open(..., 'w') raises the file is as it was; when a write
\* raises after the open the file has been truncated
save(dict, file) ==
    IF disk = "ok" THEN Store(dict, SaveBytes(dict), TRUE)
    ELSE IF disk = "open_fails" THEN SaveFailed(dict, file)
    ELSE SaveFailed(dict, <<>>)

\* add_or_update() giving up the new entry when save() could not write
add_or_update_rollback(dict, file, entry, save_immediately) ==
    LET d == DictSet(dict, entry)
        r == save(d, file)
    IN  IF ~save_immediately THEN Store(d, file, FALSE)
        ELSE IF r.error THEN SaveFailed(dict, r.meta_file)
        ELSE r

\* add_or_update() writing the file before it stores the entry
add_or_update_save_first(dict, file, entry, save_immediately) ==
    IF save_immediately
    THEN Store(DictSet(dict, entry), save(dict, file).meta_file, TRUE)
    ELSE Store(DictSet(dict, entry), file, FALSE)

\* add_or_update(entry, save_immediately)
add_or_update(dict, file, entry, save_immediately) ==
    LET d == DictSet(dict, entry)
    IN  IF save_immediately THEN save(d, file) ELSE Store(d, file, FALSE)

\* remove() deleting the key without writing the file
remove_no_save(dict, file, name) ==
    IF HasKey(dict, name)
    THEN Store(DictDel(dict, name), file, FALSE)
    ELSE Store(dict, file, FALSE)

\* remove() saving whether or not the key was present
remove_always_save(dict, file, name) ==
    IF HasKey(dict, name)
    THEN save(DictDel(dict, name), file)
    ELSE save(dict, file)

\* remove(name)
remove(dict, file, name) ==
    IF HasKey(dict, name)
    THEN save(DictDel(dict, name), file)
    ELSE Store(dict, file, FALSE)

-----------------------------------------------------------------------------
(* The index file read back as records *)

\* the lines of a text, each ended by "\n"
RECURSIVE SplitLines(_, _)
SplitLines(bytes, line) ==
    IF bytes = <<>> THEN (IF line = <<>> THEN <<>> ELSE <<line>>)
    ELSE IF Head(bytes) = "\n" THEN <<line>> \o SplitLines(Tail(bytes), <<>>)
    ELSE SplitLines(Tail(bytes), Append(line, Head(bytes)))

\* groups of five lines: separator, name, hash, company, insurance type
RECURSIVE LinesToRecords(_)
LinesToRecords(lines) ==
    IF Len(lines) < 5 THEN <<>>
    ELSE <<MetaEntry(lines[2], lines[3], lines[4], lines[5])>>
             \o LinesToRecords(SubSeq(lines, 6, Len(lines)))

FileRecords(bytes) == LinesToRecords(SplitLines(bytes, <<>>))

\* the records of the file that carry a given name
RecordsNamed(bytes, name) ==
    { i \in 1..Len(FileRecords(bytes)) : FileRecords(bytes)[i].name = name }

RecordSet(bytes) ==
    { FileRecords(bytes)[i] : i \in 1..Len(FileRecords(bytes)) }

\* __init__ reading the index file of the previous run into the dict
initial_entries_load(file) == FileRecords(file)

\* MetaFileManager.__init__: `self.entries = {}`, the call of load() is
\* commented out
initial_entries(file) == <<>>

\* str.split(sep) for a separator that is one token of the text ('---' or
\* '\n'): the pieces between the separators, empty pieces included
RECURSIVE PySplit(_, _, _)
PySplit(s, sep, piece) ==
    IF s = <<>> THEN <<piece>>
    ELSE IF Head(s) = sep
         THEN <<piece>> \o PySplit(Tail(s), sep, <<>>)
         ELSE PySplit(Tail(s), sep, Append(piece, Head(s)))

\* the loop of load() over `blocks`, from index i on, filling the dict
RECURSIVE LoadBlocks(_, _, _)
LoadBlocks(blocks, i, dict) ==
    IF i > Len(blocks) THEN dict
    ELSE LET block == Strip(blocks[i])
             lines == PySplit(block, "\n", <<>>)
         IN  IF block = <<>> THEN LoadBlocks(blocks, i + 1, dict)
             ELSE IF Len(lines) >= 4
                  THEN LoadBlocks(blocks, i + 1,
                                  DictSet(dict,
                                          MetaEntry(Strip(lines[1]),
                                                    Strip(lines[2]),
                                                    Strip(lines[3]),
                                                    Strip(lines[4]))))
                  ELSE LoadBlocks(blocks, i + 1, dict)

\* MetaFileManager.load: the dict is emptied, the content of the file is
\* split at '---', and each block of at least four lines becomes an entry
\* under its first line
load(file) == LoadBlocks(PySplit(file, "---", <<>>), 1, <<>>)

-----------------------------------------------------------------------------
(* The watched directory *)

WatchDir == "watch"

Path(parent, name) == [parent |-> parent, name |-> name]

PathA == Path(WatchDir, <<"a", ".", "pdf">>)

PathAA == Path(WatchDir, <<"a", ".", "pdf", ".", "pdf">>)

PathB == Path(WatchDir, <<"b", ".", "pdf">>)

\* a directory of the watched directory whose name ends in .pdf
PathDir == Path(WatchDir, <<"d", ".", "pdf">>)

\* a PDF document under a name without the .pdf extension
PathTxt == Path(WatchDir, <<"n", ".", "txt">>)

\* a PDF document in a sub-directory of the watched directory; the handler
\* tests the parent of every path it is given, whatever the observer reports
PathSub == Path("watch/sub", <<"c", ".", "pdf">>)

Paths == {PathA, PathAA, PathB, PathDir, PathTxt, PathSub}

Absent == [kind |-> "absent"]

Dir == [kind |-> "dir"]

File(digest, doc) == [kind |-> "file", digest |-> digest, doc |-> doc]

\* company "A" in box r1 of page 1, phrases "y" and "x" on page 1
FileA1 ==
    File(<<"h1">>,
         PdfDoc(<< [b \in Boxes |-> IF b = "r1" THEN <<"A">> ELSE <<>>] >>,
                <<"y", "x">>))

\* company "A" in box r1 of page 1, phrase "x" alone on page 1
FileA1x ==
    File(<<"h5">>,
         PdfDoc(<< [b \in Boxes |-> IF b = "r1" THEN <<"A">> ELSE <<>>] >>,
                <<"x">>))

\* company "B" in box r1 of page 1 and r2 of page 2, phrase "y" on page 1
FileB2 ==
    File(<<"h2">>,
         PdfDoc(<< [b \in Boxes |-> IF b = "r1" THEN <<" ", "B">> ELSE <<>>],
                   [b \in Boxes |-> <<" ", "B">>] >>,
                <<"y">>))

\* company "A" found but no phrase of any type on page 1
FileNoType ==
    File(<<"h3">>,
         PdfDoc(<< [b \in Boxes |-> <<"A">>] >>, <<>>))

\* no company name anywhere
FileNoCompany ==
    File(<<"h4">>,
         PdfDoc(<< [b \in Boxes |-> <<>>], [b \in Boxes |-> <<>>] >>,
                <<"y", "x">>))

\* what other programs may put at each path
NodesAt(p) ==
    IF p = PathA THEN {FileA1, FileB2, FileNoType}
    ELSE IF p = PathAA THEN {FileA1x}
    ELSE IF p = PathB THEN {FileB2, FileNoCompany}
    ELSE IF p = PathDir THEN {Dir}
    ELSE {FileA1}

\* the index file a previous run may have left behind
StaleEntry == MetaEntry(<<"b", ".", "pdf">>, <<"h0">>, <<"A">>, <<"t1">>)

PriorMetaFiles == { <<>>, SaveBytes(<<StaleEntry>>) }

\* Path.glob("*.pdf") on the watched directory (case-sensitive match)
GlobPdf(files) ==
    { p \in DOMAIN files :
        /\ files[p].kind # "absent"
        /\ p.parent = WatchDir
        /\ Len(p.name) >= 2
        /\ SubSeq(p.name, Len(p.name) - 1, Len(p.name)) = <<".", "pdf">> }

\* _is_pdf_in_root without the comparison of the parent directory
is_pdf_in_root_any_dir(path) ==
    IF Lower(PathSuffix(path.name)) # <<".", "pdf">> THEN FALSE
    ELSE TRUE

\* PDFEventHandler._is_pdf_in_root
is_pdf_in_root(path) ==
    IF Lower(PathSuffix(path.name)) # <<".", "pdf">> THEN FALSE
    ELSE IF path.parent # WatchDir THEN FALSE
    ELSE TRUE

Event(kind, path, is_directory) ==
    [kind |-> kind, src_path |-> path, is_directory |-> is_directory]

-----------------------------------------------------------------------------
(* The running program *)

NoCall == [op |-> "none"]

\* the record kept of a handler call or pass step: its arguments, what
\* extract_metadata ended in (for the steps that classify), whether save()
\* ran, the store and file before the call, and what was at the path
Call(op, path, is_directory, outcome, saved) ==
    [op |-> op, path |-> path, is_directory |-> is_directory,
     outcome |-> outcome, saved |-> saved,
     pre_entries |-> entries, pre_file |-> meta_file,
     node |-> IF path.some /\ path.val \in DOMAIN fs THEN fs[path.val]
              ELSE Absent,
     observer |-> observer]

\* the effect of a store call on the state
ApplyStore(r) ==
    /\ entries' = r.entries
    /\ meta_file' = r.meta_file
    /\ saves' = IF r.saved THEN saves + 1 ELSE saves
    /\ save_errors' = IF r.error THEN save_errors + 1 ELSE save_errors

\* main() catching FileNotFoundError alone around load_companies_config
startup_error_missing_only(dir, config) ==
    IF dir = "missing" THEN Some("directory does not exist")
    ELSE IF dir # "dir" THEN Some("not a directory")
    ELSE IF config = "missing" THEN Some("config file not found")
    ELSE None

\* main(), lines 479-498: the error that ends the process with sys.exit(1)
\* before anything is constructed, None when startup goes on
startup_error(dir, config) ==
    IF dir = "missing" THEN Some("directory does not exist")
    ELSE IF dir # "dir" THEN Some("not a directory")
    ELSE IF config = "missing" THEN Some("config file not found")
    ELSE IF config = "invalid" THEN Some("invalid JSON in config file")
    ELSE None

Init ==
    /\ pdf_dir \in {"dir", "missing", "file"}
    /\ config_path \in {"json", "missing", "invalid"}
    /\ companies_config \in IF config_path = "json" THEN Configs ELSE {<<>>}
    /\ exit_code = -1
    /\ listed = {}
    /\ disk = "ok"
    /\ save_errors = 0
    /\ observer = "idle"
    /\ handling = None
    /\ fs = [p \in Paths |-> Absent]
    /\ meta_file \in PriorMetaFiles
    /\ entries = <<>>
    /\ pc = "STARTING"
    /\ pdf_files = {}
    /\ count = 0
    /\ event_queue = <<>>
    /\ ops = 0
    /\ saves = 0
    /\ produced = {}
    /\ skipped = {}
    /\ last = NoCall
    /\ added = None

\* Another program creates or overwrites a file.  The observer, while it runs,
\* emits a created or a modified event for it.
FsWrite(p, node) ==
    /\ ops < MaxFsOps
    /\ pdf_dir = "dir"
    /\ pc \in {"STARTING", "RECONCILING", "RECONCILED", "WATCHING",
              "STOPPING"}
    /\ fs' = [fs EXCEPT ![p] = node]
    /\ ops' = ops + 1
    /\ event_queue' =
         IF observer = "running"
         THEN Append(event_queue,
                     Event(IF fs[p].kind = "absent" THEN "created"
                           ELSE "modified", p, node.kind = "dir"))
         ELSE event_queue
    /\ UNCHANGED <<companies_config, meta_file, entries, pc, pdf_files, count,
                   saves, produced, skipped, last, added>>
    /\ UNCHANGED <<pdf_dir, config_path, exit_code, listed,
                   disk, save_errors, observer>>
    /\ UNCHANGED handling

\* Another program deletes a file.
FsDelete(p) ==
    /\ ops < MaxFsOps
    /\ pdf_dir = "dir"
    /\ pc \in {"STARTING", "RECONCILING", "RECONCILED", "WATCHING",
              "STOPPING"}
    /\ fs[p].kind # "absent"
    /\ fs' = [fs EXCEPT ![p] = Absent]
    /\ ops' = ops + 1
    /\ event_queue' =
         IF observer = "running"
         THEN Append(event_queue, Event("deleted", p, fs[p].kind = "dir"))
         ELSE event_queue
    /\ UNCHANGED <<companies_config, meta_file, entries, pc, pdf_files, count,
                   saves, produced, skipped, last, added>>
    /\ UNCHANGED <<pdf_dir, config_path, exit_code, listed,
                   disk, save_errors, observer>>
    /\ UNCHANGED handling

\* main() ending in sys.exit(1): the directory or the company configuration
\* is not usable
ExitOnError ==
    /\ pc = "STARTING"
    /\ startup_error(pdf_dir, config_path).some
    /\ pc' = "EXITED"
    /\ exit_code' = 1
    /\ UNCHANGED <<companies_config, fs, meta_file, entries, pdf_files, count,
                   event_queue, ops, saves, produced, skipped, last, added,
                   pdf_dir, config_path, listed, disk, save_errors, observer>>
    /\ UNCHANGED handling

\* main() running process_existing_pdfs again while it watches
ListExistingAgain ==
    /\ pc \in {"STARTING", "WATCHING"}
    /\ ~startup_error(pdf_dir, config_path).some
    /\ entries' = IF pc = "STARTING" THEN initial_entries(meta_file)
                  ELSE entries
    /\ pdf_files' = GlobPdf(fs)
    /\ listed' = GlobPdf(fs)
    /\ count' = 0
    /\ pc' = "RECONCILING"
    /\ last' = Call("list", None, FALSE, NoOutcome, FALSE)
    /\ UNCHANGED <<companies_config, fs, meta_file, event_queue, ops, saves,
                   produced, skipped, added>>
    /\ UNCHANGED <<pdf_dir, config_path, exit_code, disk, save_errors,
                   observer>>
    /\ UNCHANGED handling

\* main() from the construction of the components to the listing in
\* process_existing_pdfs
ListExisting ==
    /\ pc = "STARTING"
    /\ ~startup_error(pdf_dir, config_path).some
    /\ entries' = initial_entries(meta_file)
    /\ pdf_files' = GlobPdf(fs)
    /\ listed' = GlobPdf(fs)
    /\ count' = 0
    /\ pc' = "RECONCILING"
    /\ last' = Call("list", None, FALSE, NoOutcome, FALSE)
    /\ UNCHANGED <<companies_config, fs, meta_file, event_queue, ops, saves,
                   produced, skipped, added>>
    /\ UNCHANGED <<pdf_dir, config_path, exit_code, disk,
                   save_errors, observer>>
    /\ UNCHANGED handling

\* the loop of process_existing_pdfs without its try/except: an exception of
\* extract_metadata leaves the loop and ends the process
ProcessExistingAbort(p) ==
    /\ pc = "RECONCILING"
    /\ p \in pdf_files
    /\ LET out == extract_metadata(companies_config, p, fs[p])
           r   == IF out.entry.some
                  THEN add_or_update(entries, meta_file, out.entry.val, FALSE)
                  ELSE Store(entries, meta_file, FALSE)
       IN  /\ ApplyStore(r)
           /\ count' = IF out.entry.some THEN count + 1 ELSE count
           /\ produced' = IF out.entry.some
                          THEN produced \cup {out.entry.val} ELSE produced
           /\ skipped' = IF out.entry.some THEN skipped ELSE skipped \cup {p}
           /\ last' = Call("process_existing", Some(p), FALSE, out, r.saved)
           /\ pc' = IF out.raised THEN "EXITED" ELSE pc
           /\ exit_code' = IF out.raised THEN 1 ELSE exit_code
    /\ pdf_files' = pdf_files \ {p}
    /\ UNCHANGED <<companies_config, fs, event_queue, ops, added>>
    /\ UNCHANGED <<pdf_dir, config_path, listed, disk, observer>>
    /\ UNCHANGED handling

\* one iteration of the loop of process_existing_pdfs; glob yields the files
\* in an arbitrary order
ProcessExisting(p) ==
    /\ pc = "RECONCILING"
    /\ p \in pdf_files
    /\ LET out == extract_metadata(companies_config, p, fs[p])
           r   == IF out.entry.some
                  THEN add_or_update(entries, meta_file, out.entry.val, FALSE)
                  ELSE Store(entries, meta_file, FALSE)
       IN  /\ ApplyStore(r)
           /\ count' = IF out.entry.some THEN count + 1 ELSE count
           /\ produced' = IF out.entry.some
                          THEN produced \cup {out.entry.val} ELSE produced
           /\ skipped' = IF out.entry.some THEN skipped ELSE skipped \cup {p}
           /\ last' = Call("process_existing", Some(p), FALSE, out, r.saved)
    /\ pdf_files' = pdf_files \ {p}
    /\ UNCHANGED <<companies_config, fs, pc, event_queue, ops, added>>
    /\ UNCHANGED <<pdf_dir, config_path, exit_code, listed, disk, observer>>
    /\ UNCHANGED handling

\* the end of process_existing_pdfs: one save() when count > 0
FinishExisting ==
    /\ pc = "RECONCILING"
    /\ pdf_files = {}
    /\ LET r == IF count > 0 THEN save(entries, meta_file)
                ELSE Store(entries, meta_file, FALSE)
       IN  /\ ApplyStore(r)
           /\ last' = Call("finish_existing", None, FALSE, NoOutcome, r.saved)
    /\ pc' = "RECONCILED"
    /\ UNCHANGED <<companies_config, fs, pdf_files, count, event_queue, ops,
                   produced, skipped, added>>
    /\ UNCHANGED <<pdf_dir, config_path, exit_code, listed, disk, observer>>
    /\ UNCHANGED handling

\* main() starting the observer before it calls process_existing_pdfs
StartObserverEarly ==
    /\ pc = "STARTING"
    /\ ~startup_error(pdf_dir, config_path).some
    /\ observer = "idle"
    /\ observer' = "running"
    /\ UNCHANGED <<companies_config, fs, meta_file, entries, pc, pdf_files,
                   count, event_queue, ops, saves, produced, skipped, last,
                   added>>
    /\ UNCHANGED <<pdf_dir, config_path, exit_code, listed, disk, save_errors>>
    /\ UNCHANGED handling

\* observer.schedule(..., recursive=False); observer.start()
StartObserver ==
    /\ pc = "RECONCILED"
    /\ observer = "idle"
    /\ observer' = "running"
    /\ pc' = "WATCHING"
    /\ UNCHANGED <<companies_config, fs, meta_file, entries, pdf_files, count,
                   event_queue, ops, saves, produced, skipped, last, added>>
    /\ UNCHANGED <<pdf_dir, config_path, exit_code, listed, disk, save_errors>>
    /\ UNCHANGED handling

\* _process_pdf dropping the entry of a file that does not classify any more
process_pdf_drop(config, dict, file, path, node) ==
    LET out == extract_metadata(config, path, node)
    IN  [out |-> out,
         store |-> IF out.entry.some
                   THEN add_or_update(dict, file, out.entry.val, TRUE)
                   ELSE remove(dict, file, PathName(path))]

\* PDFEventHandler._process_pdf on the file `node` found at `path`: the
\* exception of extract_metadata is caught, None is skipped
process_pdf(config, dict, file, path, node) ==
    LET out == extract_metadata(config, path, node)
    IN  [out |-> out,
         store |-> IF out.entry.some
                   THEN add_or_update(dict, file, out.entry.val, TRUE)
                   ELSE Store(dict, file, FALSE)]

\* meta_file_path: the index file, <directory>/<directory name>.meta, lies in
\* the watched directory itself
PathMeta == Path(WatchDir, <<"watch", ".", "meta">>)

\* What the observer, while it runs, emits for a save() that rewrote the
\* index file: a created event when the file was not there, a modified event
\* otherwise.
OwnWriteEvents(r) ==
    IF r.saved /\ ~r.error /\ observer = "running"
    THEN << Event(IF meta_file = <<>> THEN "created" ELSE "modified",
                  PathMeta, FALSE) >>
    ELSE <<>>

\* a handler that flushes the map for every file event of the directory
on_created_or_modified_flush(event) ==
    IF ~event.is_directory /\ is_pdf_in_root(event.src_path)
    THEN process_pdf(companies_config, entries, meta_file, event.src_path,
                     fs[event.src_path])
    ELSE [out |-> NoOutcome, store |-> save(entries, meta_file)]

\* the body shared by on_created and on_modified
on_created_or_modified(event) ==
    IF ~event.is_directory /\ is_pdf_in_root(event.src_path)
    THEN process_pdf(companies_config, entries, meta_file, event.src_path,
                     fs[event.src_path])
    ELSE [out |-> NoOutcome, store |-> Store(entries, meta_file, FALSE)]

\* The observer thread takes the oldest event off its queue and calls the
\* handler method for it, which begins with time.sleep(0.5) for the events of
\* a file created or modified.  The thread dispatches one event at a time and
\* none once stop() has been called.
Dispatch ==
    /\ observer = "running"
    /\ handling = None
    /\ event_queue # <<>>
    /\ handling' = Some(Head(event_queue))
    /\ event_queue' = Tail(event_queue)
    /\ UNCHANGED <<companies_config, fs, meta_file, entries, pc, pdf_files,
                   count, ops, saves, produced, skipped, last, added>>
    /\ UNCHANGED <<pdf_dir, config_path, exit_code, listed, disk, save_errors,
                   observer>>

\* on_created after its settle delay, on the event being handled
OnCreated ==
    /\ handling.some
    /\ handling.val.kind = "created"
    /\ LET event == handling.val
           r     == on_created_or_modified(event)
       IN  /\ ApplyStore(r.store)
           /\ event_queue' = event_queue \o OwnWriteEvents(r.store)
           /\ last' = Call("on_created", Some(event.src_path),
                           event.is_directory, r.out, r.store.saved)
           /\ added' = IF r.out.entry.some
                          /\ ~HasKey(entries, r.out.entry.val.name)
                       THEN Some([path |-> event.src_path,
                                  name |-> r.out.entry.val.name,
                                  pre_file |-> meta_file, deleted |-> FALSE])
                       ELSE None
    /\ handling' = None
    /\ UNCHANGED <<companies_config, fs, pc, pdf_files, count, ops, produced,
                   skipped>>
    /\ UNCHANGED <<pdf_dir, config_path, exit_code, listed, disk, observer>>

\* on_modified
OnModified ==
    /\ handling.some
    /\ handling.val.kind = "modified"
    /\ LET event == handling.val
           r     == on_created_or_modified(event)
       IN  /\ ApplyStore(r.store)
           /\ event_queue' = event_queue \o OwnWriteEvents(r.store)
           /\ last' = Call("on_modified", Some(event.src_path),
                           event.is_directory, r.out, r.store.saved)
    /\ added' = None
    /\ handling' = None
    /\ UNCHANGED <<companies_config, fs, pc, pdf_files, count, ops, produced,
                   skipped>>
    /\ UNCHANGED <<pdf_dir, config_path, exit_code, listed, disk, observer>>

\* the name on_deleted passes to remove(), None when the event is ignored
on_deleted_name(event) ==
    IF event.is_directory THEN None
    ELSE IF Lower(PathSuffix(event.src_path.name)) = <<".", "pdf">>
            /\ event.src_path.parent = WatchDir
         THEN Some(PathStem(event.src_path.name))
         ELSE None

\* on_deleted
OnDeleted ==
    /\ handling.some
    /\ handling.val.kind = "deleted"
    /\ LET event == handling.val
           name  == on_deleted_name(event)
           r     == IF name.some THEN remove(entries, meta_file, name.val)
                    ELSE Store(entries, meta_file, FALSE)
       IN  /\ ApplyStore(r)
           /\ event_queue' = event_queue \o OwnWriteEvents(r)
           /\ last' = Call("on_deleted", Some(event.src_path),
                           event.is_directory, NoOutcome, r.saved)
                      @@ [name |-> name]
           /\ added' = IF added.some /\ added.val.path = event.src_path
                          /\ ~added.val.deleted
                       THEN Some([added.val EXCEPT !.deleted = TRUE])
                       ELSE None
    /\ handling' = None
    /\ UNCHANGED <<companies_config, fs, pc, pdf_files, count, ops, produced,
                   skipped>>
    /\ UNCHANGED <<pdf_dir, config_path, exit_code, listed, disk, observer>>

\* KeyboardInterrupt in main(): observer.stop().  The emitter stops and the
\* observer thread leaves its loop after the handler it is in, so the events
\* still queued are never dispatched.
Stop ==
    /\ pc = "WATCHING"
    /\ pc' = "STOPPING"
    /\ observer' = "stopping"
    /\ event_queue' = <<>>
    /\ UNCHANGED <<companies_config, fs, meta_file, entries, pdf_files, count,
                   ops, saves, produced, skipped, last, added>>
    /\ UNCHANGED <<pdf_dir, config_path, exit_code, listed, disk, save_errors,
                   handling>>

\* main() returning from observer.join() without waiting for the handler the
\* observer thread is in
JoinNoWait ==
    /\ pc = "STOPPING"
    /\ pc' = "STOPPED"
    /\ observer' = "stopped"
    /\ exit_code' = 0
    /\ UNCHANGED <<companies_config, fs, meta_file, entries, pdf_files, count,
                   event_queue, ops, saves, produced, skipped, last, added>>
    /\ UNCHANGED <<pdf_dir, config_path, listed, disk, save_errors, handling>>

\* observer.join() returns once the observer thread has ended, then main()
\* returns
Join ==
    /\ pc = "STOPPING"
    /\ handling = None
    /\ pc' = "STOPPED"
    /\ observer' = "stopped"
    /\ exit_code' = 0
    /\ UNCHANGED <<companies_config, fs, meta_file, entries, pdf_files, count,
                   event_queue, ops, saves, produced, skipped, last, added>>
    /\ UNCHANGED <<pdf_dir, config_path, listed, disk, save_errors, handling>>

Next ==
    \/ \E p \in Paths : \E node \in NodesAt(p) : FsWrite(p, node)
    \/ \E p \in Paths : FsDelete(p)
    \/ ExitOnError
    \/ ListExisting
    \/ \E p \in Paths : ProcessExisting(p)
    \/ FinishExisting
    \/ StartObserver
    \/ Dispatch
    \/ OnCreated
    \/ OnModified
    \/ OnDeleted
    \/ Stop
    \/ Join

Spec == Init /\ [][Next]_vars

-----------------------------------------------------------------------------
(* The classifier applied to one document: every document of up to MaxPages *)
(* pages, under every configuration                                         *)

\* file names of the watched directory in other spellings: the extension in
\* upper and in mixed case, and a name that is nothing but the extension
PathUpper == Path(WatchDir, <<"b", ".", "PDF">>)

PathMixed == Path(WatchDir, <<"c", ".", "Pdf">>)

PathDot == Path(WatchDir, <<".", "pdf">>)

ClassifyPaths == Paths \cup {PathUpper, PathMixed, PathDot}

CompanyArgs == {None, Some(<<>>), Some(<<"A">>), Some(<<"B">>), Some(<<"C">>)}

ClassifyNodes == {Absent} \cup {File(<<"h1">>, doc) : doc \in Docs}

InitClassify ==
    /\ pdf_dir = "dir"
    /\ config_path = "json"
    /\ exit_code = -1
    /\ listed = {}
    /\ disk = "ok"
    /\ save_errors = 0
    /\ observer = "idle"
    /\ handling = None
    /\ companies_config \in Configs
    /\ fs = [p \in ClassifyPaths |-> Absent]
    /\ meta_file \in PriorMetaFiles
    /\ entries = <<>>
    /\ pc = "CLASSIFY"
    /\ pdf_files = {}
    /\ count = 0
    /\ event_queue = <<>>
    /\ ops = 0
    /\ saves = 0
    /\ produced = {}
    /\ skipped = {}
    /\ last = NoCall
    /\ added = None

ClassifyDetectCompany ==
    /\ pc = "CLASSIFY"
    /\ last = NoCall
    /\ \E doc \in Docs :
          last' = [op |-> "detect_company", doc |-> doc,
                   result |-> detect_company(companies_config, doc)]
    /\ UNCHANGED <<companies_config, fs, meta_file, entries, pc, pdf_files,
                   count, event_queue, ops, saves, produced, skipped, added>>
    /\ UNCHANGED <<pdf_dir, config_path, exit_code, listed,
                   disk, save_errors, observer>>
    /\ UNCHANGED handling

ClassifyDetectInsuranceType ==
    /\ pc = "CLASSIFY"
    /\ last = NoCall
    /\ \E doc \in Docs : \E company_name \in CompanyArgs :
          last' = [op |-> "detect_insurance_type", doc |-> doc,
                   company_name |-> company_name,
                   reads |-> detect_insurance_type_reads(companies_config,
                                                         company_name),
                   result |-> detect_insurance_type(companies_config, doc,
                                                    company_name)]
    /\ UNCHANGED <<companies_config, fs, meta_file, entries, pc, pdf_files,
                   count, event_queue, ops, saves, produced, skipped, added>>
    /\ UNCHANGED <<pdf_dir, config_path, exit_code, listed,
                   disk, save_errors, observer>>
    /\ UNCHANGED handling

\* _process_pdf on a file just written at PathA
ClassifyProcessPdf ==
    /\ pc = "CLASSIFY"
    /\ last = NoCall
    /\ \E node \in ClassifyNodes :
          LET r == process_pdf(companies_config, entries, meta_file, PathA,
                               node)
          IN  /\ fs' = [fs EXCEPT ![PathA] = node]
              /\ ApplyStore(r.store)
              /\ last' = [Call("process_pdf", Some(PathA), FALSE, r.out,
                               r.store.saved) EXCEPT !.node = node]
    /\ UNCHANGED <<companies_config, pc, pdf_files, count, event_queue, ops,
                   produced, skipped, added>>
    /\ UNCHANGED <<pdf_dir, config_path, exit_code, listed, disk, observer>>
    /\ UNCHANGED handling

\* A file is put at a path: whether the listing of process_existing_pdfs
\* returns it when it is there at startup, and whether on_created calls
\* _process_pdf for it when it is created while the program watches
ClassifyPath ==
    /\ pc = "CLASSIFY"
    /\ last = NoCall
    /\ \E p \in ClassifyPaths :
          LET files == [fs EXCEPT ![p] = FileA1]
          IN  /\ fs' = files
              /\ last' = [op |-> "path", path |-> Some(p),
                          listed |-> p \in GlobPdf(files),
                          handled |-> on_created_or_modified(
                                          Event("created", p, FALSE)).out
                                        .called]
    /\ UNCHANGED <<companies_config, meta_file, entries, pc, pdf_files, count,
                   event_queue, ops, saves, produced, skipped, added>>
    /\ UNCHANGED <<pdf_dir, config_path, exit_code, listed, disk, save_errors,
                   observer, handling>>

NextClassify ==
    \/ ClassifyDetectCompany
    \/ ClassifyDetectInsuranceType
    \/ ClassifyProcessPdf
    \/ ClassifyPath

SpecClassify == InitClassify /\ [][NextClassify]_vars

-----------------------------------------------------------------------------
(* The store driven through its three methods by an arbitrary caller *)

StoreEntries ==
    { MetaEntry(n, h, <<"A">>, <<"t1">>) :
        n \in {PathA.name, PathB.name}, h \in {<<"h1">>, <<"h2">>} }

StoreNames == {PathA.name, PathB.name, PathStem(PathA.name)}

InitStore ==
    /\ pdf_dir = "dir"
    /\ config_path = "json"
    /\ exit_code = -1
    /\ listed = {}
    /\ disk = "ok"
    /\ save_errors = 0
    /\ observer = "idle"
    /\ handling = None
    /\ companies_config = <<ProfileA, ProfileB>>
    /\ fs = [p \in Paths |-> Absent]
    /\ meta_file \in PriorMetaFiles
    /\ entries = <<>>
    /\ pc = "STORE"
    /\ pdf_files = {}
    /\ count = 0
    /\ event_queue = <<>>
    /\ ops = 0
    /\ saves = 0
    /\ produced = {}
    /\ skipped = {}
    /\ last = NoCall
    /\ added = None

StoreAddOrUpdate(entry, save_immediately) ==
    /\ pc = "STORE"
    /\ ops < MaxCalls
    /\ LET r == add_or_update(entries, meta_file, entry, save_immediately)
       IN  /\ ApplyStore(r)
           /\ last' = [op |-> "add_or_update", entry |-> entry,
                       save_immediately |-> save_immediately,
                       repeat |-> /\ last.op = "add_or_update"
                                  /\ last.entry = entry
                                  /\ last.save_immediately = save_immediately,
                       saved |-> r.saved, error |-> r.error, disk |-> disk,
                       after_error |-> last.op # "none" /\ last.error,
                       pre_entries |-> entries, pre_file |-> meta_file]
    /\ ops' = ops + 1
    /\ UNCHANGED <<companies_config, fs, pc, pdf_files, count, event_queue,
                   produced, skipped, added>>
    /\ UNCHANGED <<pdf_dir, config_path, exit_code, listed, disk, observer>>
    /\ UNCHANGED handling

StoreRemove(name) ==
    /\ pc = "STORE"
    /\ ops < MaxCalls
    /\ LET r == remove(entries, meta_file, name)
       IN  /\ ApplyStore(r)
           /\ last' = [op |-> "remove", name |-> name, saved |-> r.saved,
                       error |-> r.error, disk |-> disk,
                       after_error |-> last.op # "none" /\ last.error,
                       pre_entries |-> entries, pre_file |-> meta_file]
    /\ ops' = ops + 1
    /\ UNCHANGED <<companies_config, fs, pc, pdf_files, count, event_queue,
                   produced, skipped, added>>
    /\ UNCHANGED <<pdf_dir, config_path, exit_code, listed, disk, observer>>
    /\ UNCHANGED handling

StoreSave ==
    /\ pc = "STORE"
    /\ ops < MaxCalls
    /\ LET r == save(entries, meta_file)
       IN  /\ ApplyStore(r)
           /\ last' = [op |-> "save", saved |-> r.saved,
                       error |-> r.error, disk |-> disk,
                       after_error |-> last.op # "none" /\ last.error,
                       pre_entries |-> entries, pre_file |-> meta_file]
    /\ ops' = ops + 1
    /\ UNCHANGED <<companies_config, fs, pc, pdf_files, count, event_queue,
                   produced, skipped, added>>
    /\ UNCHANGED <<pdf_dir, config_path, exit_code, listed, disk, observer>>
    /\ UNCHANGED handling

NextStore ==
    \/ \E entry \in StoreEntries : \E b \in BOOLEAN : StoreAddOrUpdate(entry, b)
    \/ \E name \in StoreNames : StoreRemove(name)
    \/ StoreSave

SpecStore == InitStore /\ [][NextStore]_vars

-----------------------------------------------------------------------------
(* The same caller over an index file that cannot always be written *)

DiskStates == {"ok", "open_fails", "write_fails"}

\* the index file becomes unwritable (permissions, a full disk) or writable
\* again
DiskChange(d) ==
    /\ pc = "STORE"
    /\ d # disk
    /\ disk' = d
    /\ UNCHANGED <<companies_config, fs, meta_file, entries, pc, pdf_files,
                   count, event_queue, ops, saves, produced, skipped, last,
                   added, pdf_dir, config_path, exit_code, listed,
                   save_errors, observer>>
    /\ UNCHANGED handling

NextFault ==
    \/ NextStore
    \/ \E d \in DiskStates : DiskChange(d)

SpecFault == InitStore /\ [][NextFault]_vars

-----------------------------------------------------------------------------
(* save() followed by load(), for every content of the store of up to       *)
(* MaxEntries entries                                                        *)

MaxEntries == 2

\* a file name that contains the separator of the index format
PathDashes == Path(WatchDir, <<"a", "---", "b", ".", "pdf">>)

LoadEntries ==
    { MetaEntry(n, h, <<"A">>, <<"t1">>) :
        n \in {PathA.name, PathB.name, PathDashes.name},
        h \in {<<"h1">>, <<"h2">>} }

\* the dicts of up to MaxEntries entries: the keys are the names, each once
LoadDicts ==
    UNION { { d \in [1..n -> LoadEntries] :
                \A i, j \in 1..n : d[i].name = d[j].name => i = j } :
            n \in 0..MaxEntries }

InitLoad ==
    /\ pdf_dir = "dir"
    /\ config_path = "json"
    /\ exit_code = -1
    /\ listed = {}
    /\ disk = "ok"
    /\ save_errors = 0
    /\ observer = "idle"
    /\ handling = None
    /\ companies_config = <<ProfileA, ProfileB>>
    /\ fs = [p \in Paths |-> Absent]
    /\ meta_file \in PriorMetaFiles
    /\ entries \in LoadDicts
    /\ pc = "LOAD"
    /\ pdf_files = {}
    /\ count = 0
    /\ event_queue = <<>>
    /\ ops = 0
    /\ saves = 0
    /\ produced = {}
    /\ skipped = {}
    /\ last = NoCall
    /\ added = None

\* save() on the store as it is
LoadSave ==
    /\ pc = "LOAD"
    /\ LET r == save(entries, meta_file)
       IN  /\ ApplyStore(r)
           /\ last' = [op |-> "save", saved |-> r.saved,
                       pre_entries |-> entries, pre_file |-> meta_file]
    /\ pc' = "SAVED"
    /\ UNCHANGED <<companies_config, fs, pdf_files, count, event_queue, ops,
                   produced, skipped, added>>
    /\ UNCHANGED <<pdf_dir, config_path, exit_code, listed, disk, observer,
                   handling>>

\* load() on the file that save() wrote
LoadLoad ==
    /\ pc = "SAVED"
    /\ entries' = load(meta_file)
    /\ last' = [op |-> "load", saved |-> FALSE,
                pre_entries |-> entries, pre_file |-> meta_file]
    /\ pc' = "LOADED"
    /\ UNCHANGED <<companies_config, fs, meta_file, pdf_files, count,
                   event_queue, ops, saves, produced, skipped, added>>
    /\ UNCHANGED <<pdf_dir, config_path, exit_code, listed, disk, save_errors,
                   observer, handling>>

NextLoad ==
    \/ LoadSave
    \/ LoadLoad

SpecLoad == InitLoad /\ [][NextLoad]_vars

-----------------------------------------------------------------------------
(* Helpers of the properties *)

ClassifyingOps == {"process_existing", "on_created", "on_modified"}

-----------------------------------------------------------------------------
(* Properties *)

\* C1: when a create event for a new top-level PDF has been handled and the
\* document classified, the index file holds exactly one record for it; when
\* the delete event for the same file has then been handled, the index file
\* holds no record for it and is equal to what it was before the addition.
C1_EventScenario ==
    /\ (last.op = "on_created" /\ added.some /\ ~added.val.deleted)
          => Cardinality(RecordsNamed(meta_file, added.val.name)) = 1
    /\ (last.op = "on_deleted" /\ added.some /\ added.val.deleted)
          => /\ RecordsNamed(meta_file, added.val.name) = {}
             /\ meta_file = added.val.pre_file

\* C2: the name of every entry built by extract_metadata, the key it is
\* stored under and the name written to the index file are the file name
\* without its extension, the identity on_deleted passes to remove().
C2_NameIsStem ==
    /\ (last.op \in ClassifyingOps /\ last.outcome.entry.some)
          => /\ last.outcome.entry.val.name = PathStem(last.path.val.name)
             /\ HasKey(entries, PathStem(last.path.val.name))
             /\ RecordsNamed(meta_file, PathStem(last.path.val.name)) # {}
                    \/ ~last.saved
    /\ (last.op = "on_deleted" /\ last.name.some)
          => last.name.val = PathStem(last.path.val.name)

\* C3: no step of the startup pass before its end writes the index file;
\* when the pass has ended the index file holds exactly one record per file
\* that classified and none for a file that did not, and the pass has
\* written the file exactly once if it produced an entry and not at all
\* otherwise.
C3_StartupReconciliation ==
    /\ (last.op = "process_existing")
          => (~last.saved /\ meta_file = last.pre_file /\ saves = 0)
    /\ (last.op = "finish_existing")
          => /\ RecordSet(meta_file) = produced
             /\ Len(FileRecords(meta_file)) = Cardinality(produced)
             /\ \A p \in skipped :
                    RecordsNamed(meta_file, PathName(p)) = {}
             /\ saves = IF produced # {} THEN 1 ELSE 0

\* the region of a coordinate entry exists in the document
RegionExists(doc, coord) ==
    /\ ~doc.corrupt
    /\ coord.page \in 1..Len(doc.pages)
    /\ <<coord.page, coord.box>> \notin doc.bad

\* the text the accessor yields for an existing region
RegionText(doc, coord) == Strip(doc.pages[coord.page][coord.box])

\* the (profile, region) pairs of a configuration
Pairs(config) ==
    UNION { { <<i, j>> : j \in 1..Len(config[i].coordinates) } :
            i \in 1..Len(config) }

\* the pairs whose region exists and contains the profile's company name
MatchingPairs(config, doc) ==
    { p \in Pairs(config) :
        /\ RegionExists(doc, config[p[1]].coordinates[p[2]])
        /\ IsSubstring(config[p[1]].company,
                       RegionText(doc, config[p[1]].coordinates[p[2]])) }

\* the pairs whose page lies beyond the end of the document
BeyondPairs(config, doc) ==
    { p \in Pairs(config) :
        ~doc.corrupt /\ config[p[1]].coordinates[p[2]].page > Len(doc.pages) }

\* configured order: profile first, then region
Before(p, q) == p[1] < q[1] \/ (p[1] = q[1] /\ p[2] < q[2])

\* the phrases configured for a company name
PhrasesOf(config, company_name) ==
    UNION { UNION { { config[i].insurance_types[t].text_representations[k] :
                        k \in 1..Len(config[i].insurance_types[t]
                                        .text_representations) } :
                    t \in 1..Len(config[i].insurance_types) } :
            i \in { n \in 1..Len(config) : config[n].company = company_name } }

\* C4: every entry of the store and every record of the index file has a
\* non-empty company and a non-empty insurance type, and extract_metadata
\* returns an entry only when both detections gave a non-empty identifier.
C4_EntriesFullyClassified ==
    /\ \A i \in 1..Len(entries) :
          entries[i].company # <<>> /\ entries[i].insurance_type # <<>>
    /\ \A r \in RecordSet(meta_file) :
          r.company # <<>> /\ r.insurance_type # <<>>
    /\ (last.op \in ClassifyingOps /\ last.outcome.entry.some)
          => /\ last.outcome.company.some
             /\ last.outcome.company.val # <<>>
             /\ last.outcome.insurance_type.some
             /\ last.outcome.insurance_type.val # <<>>

\* a document whose company was found and whose type was not (or was the
\* empty identifier) has been handled while the store holds an entry
C4_Witness ==
    /\ last.op \in ClassifyingOps
    /\ Truthy(last.outcome.company)
    /\ last.outcome.insurance_type = Some(<<>>)
    /\ ~last.outcome.entry.some
    /\ Len(entries) >= 1

\* C5: detect_company returns the company of the first (profile, region)
\* pair, in profile order and then region order, whose region exists and
\* contains the profile's name, and none when there is no such pair.
C5_FirstMatchWins ==
    (last.op = "detect_company")
       => LET M == MatchingPairs(companies_config, last.doc)
          IN  IF M = {} THEN last.result = None
              ELSE \E p \in M :
                     /\ \A q \in M : q = p \/ Before(p, q)
                     /\ last.result = Some(companies_config[p[1]].company)

\* two profiles with different names both match, and the earlier one won
C5_Witness ==
    /\ last.op = "detect_company"
    /\ \E p, q \in MatchingPairs(companies_config, last.doc) :
          /\ p[1] < q[1]
          /\ companies_config[p[1]].company # companies_config[q[1]].company
          /\ companies_config[q[1]].company # <<>>
          /\ last.result = Some(companies_config[p[1]].company)

\* C6: a region whose page number exceeds the page count is skipped: when
\* some other region exists and contains its profile's name, detect_company
\* returns a match.
C6_AbsentPageSkipped ==
    (/\ last.op = "detect_company"
     /\ BeyondPairs(companies_config, last.doc) # {}
     /\ MatchingPairs(companies_config, last.doc) # {})
       => last.result.some

\* a region beyond the last page comes before the first matching region
C6_Witness ==
    /\ last.op = "detect_company"
    /\ last.result.some
    /\ last.result.val # <<>>
    /\ \E b \in BeyondPairs(companies_config, last.doc) :
          \A m \in MatchingPairs(companies_config, last.doc) : Before(b, m)

\* C7: when no configured company name is a substring of the text of any of
\* that company's regions, extract_metadata returns None and _process_pdf
\* leaves the store and the index file as they were.
C7_NoCompanyNoEntry ==
    (/\ last.op = "process_pdf"
     /\ fs[PathA].kind = "file"
     /\ MatchingPairs(companies_config, fs[PathA].doc) = {})
       => /\ ~last.outcome.raised
          /\ last.outcome.entry = None
          /\ entries = last.pre_entries
          /\ meta_file = last.pre_file
          /\ ~last.saved

\* a readable document with text in a configured region and a type phrase
\* on its first page, in which no company name occurs
C7_Witness ==
    /\ last.op = "process_pdf"
    /\ fs[PathA].kind = "file"
    /\ MatchingPairs(companies_config, fs[PathA].doc) = {}
    /\ \E p \in Pairs(companies_config) :
          /\ RegionExists(fs[PathA].doc,
                          companies_config[p[1]].coordinates[p[2]])
          /\ RegionText(fs[PathA].doc,
                        companies_config[p[1]].coordinates[p[2]]) # <<>>
    /\ IsSubstring(<<"x">>, fs[PathA].doc.full)
    /\ last.outcome.entry = None

\* C8: when a company is detected and none of its phrases occurs in the text
\* of the first page, detect_insurance_type returns None, extract_metadata
\* returns None and nothing is stored.
C8_TwoStageGate ==
    (/\ last.op = "process_pdf"
     /\ fs[PathA].kind = "file"
     /\ Truthy(last.outcome.company)
     /\ \A phrase \in PhrasesOf(companies_config, last.outcome.company.val) :
           ~IsSubstring(phrase, fs[PathA].doc.full))
       => /\ last.outcome.insurance_type = None
          /\ last.outcome.entry = None
          /\ entries = last.pre_entries
          /\ meta_file = last.pre_file

\* a company was detected on a first page that has text, but none of the
\* company's phrases
C8_Witness ==
    /\ last.op = "process_pdf"
    /\ fs[PathA].kind = "file"
    /\ Truthy(last.outcome.company)
    /\ fs[PathA].doc.full # <<>>
    /\ PhrasesOf(companies_config, last.outcome.company.val) # {}
    /\ \A phrase \in PhrasesOf(companies_config, last.outcome.company.val) :
           ~IsSubstring(phrase, fs[PathA].doc.full)
    /\ last.outcome.entry = None

\* C9: a second add_or_update with the same entry and the same flag leaves
\* the dict and the index file exactly as the first call left them.
C9_UpsertIdempotent ==
    (last.op = "add_or_update" /\ last.repeat)
       => /\ entries = last.pre_entries
          /\ meta_file = last.pre_file

\* the repeated call wrote the file, for a store of two entries
C9_Witness ==
    /\ last.op = "add_or_update"
    /\ last.repeat
    /\ last.save_immediately
    /\ Len(entries) = 2
    /\ entries[1] = last.entry

\* C10: remove(name) for a name that is not a key leaves the dict and the
\* content of the index file unchanged.
C10_RemoveAbsentNoop ==
    (/\ last.op = "remove"
     /\ \A i \in 1..Len(last.pre_entries) :
           last.pre_entries[i].name # last.name)
       => /\ entries = last.pre_entries
          /\ meta_file = last.pre_file

\* an absent name was removed while the file differed from the dict
C10_Witness ==
    /\ last.op = "remove"
    /\ \A i \in 1..Len(last.pre_entries) : last.pre_entries[i].name # last.name
    /\ last.pre_entries # <<>>
    /\ last.pre_file # SaveBytes(last.pre_entries)
    /\ meta_file = last.pre_file

\* C11 (as stated): remove(name) flushes immediately whether or not the name was
\* a key of the store, so that after every remove call the index file is the
\* rewrite of the map.
C11_RemoveAlwaysFlushes ==
    (pc = "STORE" /\ last.op = "remove") =>
        /\ last.saved
        /\ meta_file = SaveBytes(entries)

\* C11 (amended): remove(name) deletes the key and rewrites the index file at
\* once when the name is a key of the store (the other entries keep their
\* order); when the name is not a key it writes nothing and the store and the
\* file are as they were.
C11_RemoveFlushesWhenPresent ==
    (pc = "STORE" /\ last.op = "remove") =>
        IF HasKey(last.pre_entries, last.name)
        THEN /\ ~HasKey(entries, last.name)
             /\ entries = SelectSeq(last.pre_entries,
                                    LAMBDA e : e.name # last.name)
             /\ last.saved
             /\ meta_file = SaveBytes(entries)
        ELSE /\ entries = last.pre_entries
             /\ ~last.saved
             /\ meta_file = last.pre_file

\* a present key removed from a store of two entries, the file rewritten with
\* the one that is left
C11_Witness ==
    /\ pc = "STORE"
    /\ last.op = "remove"
    /\ Len(last.pre_entries) = 2
    /\ HasKey(last.pre_entries, last.name)
    /\ Len(entries) = 1
    /\ last.pre_file # meta_file
    /\ RecordSet(meta_file) = {entries[1]}

\* C12: after every add_or_update with save_immediately = True, and after every
\* save() that wrote the file, the index file holds one record per entry of
\* the map and nothing else: the records of the file, read back, are exactly
\* the entries of the map (the file is rewritten in full, never appended to
\* or patched), and an upserted entry is among them.
C12_FileMirrorsMap ==
    (pc = "STORE"
        /\ \/ last.op = "add_or_update" /\ last.save_immediately
           \/ last.op = "save") =>
        /\ last.saved
        /\ Len(FileRecords(meta_file)) = Len(entries)
        /\ RecordSet(meta_file) = { entries[i] : i \in 1..Len(entries) }
        /\ \A i, j \in 1..Len(entries) :
              entries[i].name = entries[j].name => i = j
        /\ last.op = "add_or_update" => last.entry \in RecordSet(meta_file)

\* an upsert with save_immediately that replaces one of two entries, over a
\* file that did not hold the map before the call
C12_Witness ==
    /\ pc = "STORE"
    /\ last.op = "add_or_update"
    /\ last.save_immediately
    /\ Len(last.pre_entries) = 2
    /\ HasKey(last.pre_entries, last.entry.name)
    /\ last.entry \notin RecordSet(last.pre_file)
    /\ RecordSet(last.pre_file) # { last.pre_entries[i] : i \in 1..2 }
    /\ Len(FileRecords(meta_file)) = 2

\* C13: every start of the process begins from an empty map, whatever index
\* file a previous run left: the map is empty until the first call, it is
\* empty right after the store is constructed, and every entry of the map is
\* either one the map held before the last call or the entry that
\* extract_metadata built from a file in that call.  No record of the index
\* file is ever read into the map.
C13_StartsEmpty ==
    pc \in {"STARTING", "RECONCILING", "RECONCILED", "WATCHING", "STOPPING",
            "STOPPED", "EXITED"} =>
        /\ last = NoCall => entries = <<>>
        /\ (last # NoCall /\ last.op = "list") => entries = <<>>
        /\ last # NoCall =>
              \A i \in 1..Len(entries) :
                 \/ \E j \in 1..Len(last.pre_entries) :
                       last.pre_entries[j] = entries[i]
                 \/ last.outcome.entry = Some(entries[i])

\* the index file of the previous run still holds its record of b.pdf while
\* the pass has put into the map a different entry for b.pdf, built from the
\* file
C13_Witness ==
    /\ pc = "RECONCILING"
    /\ meta_file = SaveBytes(<<StaleEntry>>)
    /\ HasKey(entries, StaleEntry.name)
    /\ \A i \in 1..Len(entries) : entries[i] # StaleEntry
    /\ last.op = "process_existing"
    /\ last.outcome.entry.some
    /\ last.outcome.entry.val.name = StaleEntry.name

\* a file of the watched directory itself whose name ends in .pdf, in any
\* letter case
TopLevelPdf(path) ==
    /\ path.parent = WatchDir
    /\ Len(path.name) >= 2
    /\ path.name[Len(path.name) - 1] = "."
    /\ path.name[Len(path.name)] \in {"pdf", "PDF", "Pdf"}

\* C14: a create or modify event for a top-level PDF whose classification
\* fails (extract_metadata returns None or raises) leaves the map and the
\* index file exactly as they were before the event: nothing is written, and
\* an entry the map already held under that name keeps its hash, company and
\* type.
C14_FailedClassificationNoChange ==
    (/\ pc \in {"WATCHING", "STOPPING", "STOPPED"}
     /\ last.op \in {"on_created", "on_modified"}
     /\ ~last.is_directory
     /\ TopLevelPdf(last.path.val)
     /\ ~last.outcome.entry.some) =>
        /\ last.outcome.called
        /\ entries = last.pre_entries
        /\ meta_file = last.pre_file
        /\ ~last.saved

\* a modify event for a document that classified before and does not any
\* more: its entry is still in the map and on disk
C14_Witness ==
    /\ pc = "WATCHING"
    /\ last.op = "on_modified"
    /\ TopLevelPdf(last.path.val)
    /\ last.outcome.called
    /\ ~last.outcome.raised
    /\ ~last.outcome.entry.some
    /\ HasKey(entries, PathName(last.path.val))
    /\ RecordSet(meta_file) = { entries[i] : i \in 1..Len(entries) }

\* a create or modify event whose classification raises (the file is gone
\* when the handler reads it) over a map that holds an entry under its name
C14_WitnessRaise ==
    /\ pc = "WATCHING"
    /\ last.op \in {"on_created", "on_modified"}
    /\ TopLevelPdf(last.path.val)
    /\ last.outcome.raised
    /\ HasKey(entries, PathName(last.path.val))

HandlerOps == {"on_created", "on_modified", "on_deleted"}

\* C15: a create, modify or delete event whose path is a directory, is not
\* directly inside the watched directory, or has no PDF extension is ignored:
\* extract_metadata is not called, remove() is not called, nothing is
\* written, and the map and the index file are as they were.
C15_ForeignEventIgnored ==
    (/\ pc \in {"WATCHING", "STOPPING", "STOPPED"}
     /\ last.op \in HandlerOps
     /\ last.is_directory \/ ~TopLevelPdf(last.path.val)) =>
        /\ ~last.outcome.called
        /\ last.op = "on_deleted" => ~last.name.some
        /\ entries = last.pre_entries
        /\ meta_file = last.pre_file
        /\ ~last.saved

\* a create event for a document in a sub-directory that would classify,
\* ignored over a map that holds an entry
C15_Witness ==
    /\ pc = "WATCHING"
    /\ last.op = "on_created"
    /\ last.path = Some(PathSub)
    /\ fs[PathSub] = FileA1
    /\ entries # <<>>
    /\ ~HasKey(entries, PathSub.name)
    /\ ~last.outcome.called

\* the other ignored events: a directory named d.pdf, a document named n.txt,
\* and the delete event of each
C15_WitnessDirectory ==
    /\ last.op \in HandlerOps
    /\ last.is_directory
    /\ last.path = Some(PathDir)

C15_WitnessNoExtension ==
    /\ last.op = "on_modified"
    /\ last.path = Some(PathTxt)

C15_WitnessDeleted ==
    /\ last.op = "on_deleted"
    /\ last.path \in {Some(PathTxt), Some(PathSub), Some(PathDir)}
    /\ entries # <<>>

\* C16: when the watched directory does not exist or is not a directory, or
\* the company configuration file is missing or is not valid JSON, the
\* process reports the error and exits with status 1 from STARTING: the
\* reconciliation pass never runs, the observer is never started, no event is
\* handled, and the store and the index file are never touched.  It never
\* reaches any other state, and status 1 is given in no other case.
C16_ConfigErrorFatal ==
    pc \in {"STARTING", "RECONCILING", "RECONCILED", "WATCHING", "STOPPING",
            "STOPPED", "EXITED"} =>
        /\ (pdf_dir # "dir" \/ config_path # "json") =>
              /\ pc \in {"STARTING", "EXITED"}
              /\ last = NoCall
              /\ observer = "idle"
              /\ event_queue = <<>>
              /\ entries = <<>>
              /\ saves = 0
              /\ listed = {}
              /\ meta_file \in PriorMetaFiles
        /\ pc = "EXITED" =>
              /\ exit_code = 1
              /\ startup_error(pdf_dir, config_path).some
        /\ exit_code = 1 => (pdf_dir # "dir" \/ config_path # "json")
        /\ (pdf_dir = "dir" /\ config_path = "json") => pc # "EXITED"

\* the process has exited with status 1 on a configuration file that is not
\* valid JSON, leaving PDFs in the watched directory unlisted
C16_Witness ==
    /\ pc = "EXITED"
    /\ exit_code = 1
    /\ pdf_dir = "dir"
    /\ config_path = "invalid"
    /\ \E p \in GlobPdf(fs) : fs[p].kind = "file"
    /\ meta_file = SaveBytes(<<StaleEntry>>)

\* the same exit on a directory argument that does not exist or names a file
C16_WitnessDirectory ==
    /\ pc = "EXITED"
    /\ exit_code = 1
    /\ pdf_dir \in {"missing", "file"}

\* the listed files that the pass has turned into an entry
Entered(files, built) ==
    { p \in files : \E e \in built : e.name = PathName(p) }

\* C17: a failure on one document is isolated.  In the reconciliation pass an
\* exception on one file changes nothing in the store and does not stop the
\* pass: the files not yet processed are still pending, at the end of the pass
\* every listed file has either produced an entry or been skipped, and the
\* final flush has written the map when an entry was produced.  In an event
\* handler an exception leaves the observer running.
C17_FailureIsolated ==
    pc \in {"STARTING", "RECONCILING", "RECONCILED", "WATCHING", "STOPPING",
            "STOPPED", "EXITED"} =>
        /\ (last # NoCall /\ last.op = "process_existing"
                /\ last.outcome.raised) =>
              /\ pc = "RECONCILING"
              /\ entries = last.pre_entries
              /\ meta_file = last.pre_file
              /\ last.path.val \in skipped
        /\ pc = "RECONCILING" =>
              /\ pdf_files = listed \ (skipped \cup Entered(listed, produced))
              /\ count = Cardinality(Entered(listed, produced))
        /\ pc = "RECONCILED" =>
              /\ pdf_files = {}
              /\ listed = skipped \cup Entered(listed, produced)
              /\ last.op = "finish_existing"
              /\ produced # {} => last.saved /\ meta_file = SaveBytes(entries)
        /\ (last # NoCall /\ last.op \in {"on_created", "on_modified"}
                /\ last.outcome.raised /\ pc = "WATCHING") =>
              /\ observer = "running"
              /\ exit_code = -1

\* the pass is over: the directory d.pdf raised, the two other listed files
\* became entries, and the flush wrote both
C17_Witness ==
    /\ pc = "RECONCILED"
    /\ Cardinality(listed) = 3
    /\ PathDir \in skipped
    /\ fs[PathDir] = Dir
    /\ Cardinality(produced) = 2
    /\ last.saved
    /\ Len(FileRecords(meta_file)) = 2

\* a handler whose classification raised, and the observer still running
C17_WitnessHandler ==
    /\ pc = "WATCHING"
    /\ last.op \in {"on_created", "on_modified"}
    /\ last.outcome.raised
    /\ observer = "running"

\* whether the last call of the store reached save()
WriteAttempted ==
    \/ last.op = "save"
    \/ last.op = "add_or_update" /\ last.save_immediately
    \/ last.op = "remove" /\ HasKey(last.pre_entries, last.name)

\* C18: when the index file cannot be written during add_or_update, remove or
\* save, the error is printed and the call returns; the map holds the result
\* of the mutation all the same; the write is attempted once per call and
\* never again; the file is left as it was or truncated, so it does not hold
\* the map; and the next save() that succeeds makes the file equal to the map.
C18_WriteFailure ==
    (pc = "STORE" /\ last.op # "none") =>
        /\ last.error <=> (WriteAttempted /\ last.disk # "ok")
        /\ last.saved <=> (WriteAttempted /\ last.disk = "ok")
        /\ saves + save_errors <= ops
        /\ last.error => save_errors >= 1
        /\ last.op = "add_or_update" =>
              /\ \E i \in 1..Len(entries) : entries[i] = last.entry
              /\ SelectSeq(entries, LAMBDA e : e.name # last.entry.name)
                   = SelectSeq(last.pre_entries,
                               LAMBDA e : e.name # last.entry.name)
        /\ last.op = "remove" =>
              entries = SelectSeq(last.pre_entries,
                                  LAMBDA e : e.name # last.name)
        /\ last.op = "save" => entries = last.pre_entries
        /\ last.error => meta_file \in {last.pre_file, <<>>}
        /\ ~WriteAttempted => meta_file = last.pre_file
        /\ last.saved => meta_file = SaveBytes(entries)

\* a write that failed left the file without the map; the call after it
\* succeeds and the file holds the two entries of the map again
C18_Witness ==
    /\ pc = "STORE"
    /\ last.op # "none"
    /\ last.after_error
    /\ last.saved
    /\ last.pre_file # SaveBytes(last.pre_entries)
    /\ Len(entries) = 2
    /\ meta_file = SaveBytes(entries)

\* an upsert whose write failed: the new entry is in the map and not on disk
C18_WitnessFailed ==
    /\ pc = "STORE"
    /\ last.op = "add_or_update"
    /\ last.error
    /\ \E i \in 1..Len(entries) : entries[i] = last.entry
    /\ last.entry \notin RecordSet(meta_file)
    /\ meta_file # <<>>

PassOps == {"list", "process_existing", "finish_existing"}

MainSteps ==
    { <<"STARTING", "RECONCILING">>, <<"RECONCILING", "RECONCILED">>,
      <<"RECONCILED", "WATCHING">>, <<"WATCHING", "STOPPING">>,
      <<"STOPPING", "STOPPED">>, <<"STARTING", "EXITED">> }

\* C20: main() moves only along STARTING -> RECONCILING -> WATCHING ->
\* STOPPING (RECONCILED is the end of RECONCILING, the pass done and the
\* observer not yet started; EXITED is the exit on a startup error, taken
\* from STARTING alone), so no state is entered twice.  The listing of the
\* pass is made once, from STARTING; the observer is started once, when the
\* pass and its flush are over; and the handling of an event begins only in
\* WATCHING and ends there or in STOPPING, after which no step of the pass is
\* taken.
C20_LoopOrder ==
    [][ /\ pc' # pc => <<pc, pc'>> \in MainSteps
        /\ listed' # listed => pc = "STARTING" /\ pc' = "RECONCILING"
        /\ (last' # last /\ last'.op = "list") => pc = "STARTING"
        /\ (last' # last /\ last'.op \in {"process_existing",
                                           "finish_existing"}) =>
              /\ pc = "RECONCILING"
              /\ observer = "idle"
              /\ last = NoCall \/ last.op \in PassOps
        /\ observer' # observer =>
              \/ /\ observer = "idle" /\ observer' = "running"
                 /\ pc = "RECONCILED" /\ pc' = "WATCHING"
                 /\ last.op = "finish_existing"
                 /\ count > 0 => meta_file = SaveBytes(entries)
              \/ /\ observer = "running" /\ observer' = "stopping"
                 /\ pc = "WATCHING" /\ pc' = "STOPPING"
              \/ /\ observer = "stopping" /\ observer' = "stopped"
                 /\ pc = "STOPPING" /\ pc' = "STOPPED"
        /\ (handling' # handling /\ handling'.some) =>
              pc = "WATCHING" /\ pc' = "WATCHING"
        /\ (last' # last /\ last'.op \in HandlerOps) =>
              pc \in {"WATCHING", "STOPPING"} /\ pc' = pc
      ]_vars

\* main() has gone through all four states: a pass that built an entry, an
\* event handled while watching, then the stop
C20_Witness ==
    /\ pc = "STOPPED"
    /\ observer = "stopped"
    /\ produced # {}
    /\ last.op \in HandlerOps
    /\ saves >= 2

\* the text of the first page, empty when the document cannot be read or
\* has no page
FirstPageText(doc) ==
    IF doc.corrupt \/ Len(doc.pages) = 0 \/ doc.full_raises THEN <<>>
    ELSE doc.full

\* the profiles of a configuration that carry a given name
ProfilesNamed(config, company_name) ==
    { i \in 1..Len(config) : config[i].company = company_name }

\* the types of a profile one of whose phrases occurs in a text
MatchingTypes(profile, text) ==
    { t \in 1..Len(profile.insurance_types) :
        \E k \in 1..Len(profile.insurance_types[t].text_representations) :
            IsSubstring(profile.insurance_types[t].text_representations[k],
                        text) }

\* C21: for a company that has a profile, detect_insurance_type returns the
\* identifier of the first type, in the order of the profile's type map, one
\* of whose phrases is a substring of the text of the first page, and None
\* when no phrase of any type is; the text of the other pages plays no part.
C21_FirstTypeWins ==
    (/\ pc = "CLASSIFY"
     /\ last.op = "detect_insurance_type"
     /\ Truthy(last.company_name)
     /\ ProfilesNamed(companies_config, last.company_name.val) # {})
       => LET i == CHOOSE n \in ProfilesNamed(companies_config,
                                              last.company_name.val) :
                     \A m \in ProfilesNamed(companies_config,
                                            last.company_name.val) : n <= m
              M == MatchingTypes(companies_config[i],
                                 FirstPageText(last.doc))
          IN  IF M = {} THEN last.result = None
              ELSE \E t \in M :
                     /\ \A u \in M : t <= u
                     /\ last.result =
                          Some(companies_config[i].insurance_types[t].type_id)

\* phrases of two types are on the first page and the type that comes first
\* in the profile is returned, although its phrase comes later in the text
C21_Witness ==
    /\ pc = "CLASSIFY"
    /\ last.op = "detect_insurance_type"
    /\ last.company_name = Some(<<"A">>)
    /\ companies_config = <<ProfileA, ProfileB>>
    /\ last.doc.full = <<"y", "x">>
    /\ Len(last.doc.pages) >= 1
    /\ MatchingTypes(ProfileA, last.doc.full) = {1, 2}
    /\ last.result = Some(<<"t1">>)

\* the only phrase of the profile's first type is on the second page: the
\* second type, whose phrase is on the first page, is returned
C21_WitnessLaterPage ==
    /\ pc = "CLASSIFY"
    /\ last.op = "detect_insurance_type"
    /\ last.company_name = Some(<<"B">>)
    /\ companies_config = <<ProfileA, ProfileB>>
    /\ last.doc.full = <<"x">>
    /\ last.doc.later = <<"y">>
    /\ last.result = Some(<<"t1">>)

\* C22: when the company argument is None or empty, or no profile carries
\* exactly that name, detect_insurance_type returns None and has not opened
\* the document; in every other case it reads the first page once.
C22_NoCompanyNoRead ==
    (pc = "CLASSIFY" /\ last.op = "detect_insurance_type") =>
        IF \/ ~last.company_name.some
           \/ last.company_name.val = <<>>
           \/ ProfilesNamed(companies_config, last.company_name.val) = {}
        THEN last.result = None /\ last.reads = <<>>
        ELSE last.reads = <<"extract_full_page_text">>

\* a name that no profile carries, on a document whose first page holds a
\* phrase of every type
C22_Witness ==
    /\ pc = "CLASSIFY"
    /\ last.op = "detect_insurance_type"
    /\ last.company_name = Some(<<"C">>)
    /\ last.doc.full = <<"y", "x">>
    /\ Len(last.doc.pages) >= 1
    /\ last.result = None
    /\ last.reads = <<>>

\* the empty name, which the profile without a "company" key carries and
\* which is refused before the lookup
C22_WitnessEmpty ==
    /\ pc = "CLASSIFY"
    /\ last.op = "detect_insurance_type"
    /\ last.company_name = Some(<<>>)
    /\ ProfilesNamed(companies_config, <<>>) # {}
    /\ last.doc.full = <<"x">>
    /\ last.result = None

\* the type identifiers configured for a company name
TypeIdsOf(config, company_name) ==
    UNION { { config[i].insurance_types[t].type_id :
                t \in 1..Len(config[i].insurance_types) } :
            i \in ProfilesNamed(config, company_name) }

\* C23: in every state, the company of each entry of the map is the name of a
\* configured profile and its insurance_type is a type identifier configured
\* for a profile of that name; the same holds of every entry that
\* extract_metadata returns.
C23_EntriesAreConfigured ==
    pc \in {"STARTING", "RECONCILING", "RECONCILED", "WATCHING", "STOPPING",
            "STOPPED", "EXITED"} =>
        /\ \A i \in 1..Len(entries) :
              /\ ProfilesNamed(companies_config, entries[i].company) # {}
              /\ entries[i].insurance_type
                   \in TypeIdsOf(companies_config, entries[i].company)
        /\ (last # NoCall /\ last.outcome.entry.some) =>
              /\ ProfilesNamed(companies_config,
                               last.outcome.entry.val.company) # {}
              /\ last.outcome.entry.val.insurance_type
                   \in TypeIdsOf(companies_config,
                                 last.outcome.entry.val.company)

\* the map holds entries of two companies with different types, under a
\* configuration in which each company has both type identifiers
C23_Witness ==
    /\ pc = "WATCHING"
    /\ companies_config = <<ProfileA, ProfileB>>
    /\ \E i, j \in 1..Len(entries) :
          /\ entries[i].company = <<"A">>
          /\ entries[j].company = <<"B">>
          /\ entries[i].insurance_type # entries[j].insurance_type

\* the entries of a dict under other names than `name`, in order
Others(dict, name) == SelectSeq(dict, LAMBDA e : e.name # name)

\* C24: after a create or modify event whose classification succeeded, the
\* map holds exactly one entry under the name of the file, made of the digest
\* of the file and of the company and type detected in that event; the entry
\* the map held under that name is gone, the entries under other names are as
\* they were, and the index file has been rewritten with the map.
C24_UpsertReplaces ==
    (/\ pc \in {"WATCHING", "STOPPING", "STOPPED"}
     /\ last.op \in {"on_created", "on_modified"}
     /\ last.outcome.entry.some) =>
        LET path == last.path.val
            name == PathName(path)
        IN  /\ Cardinality({ i \in 1..Len(entries) :
                                entries[i].name = name }) = 1
            /\ \E i \in 1..Len(entries) :
                  entries[i] = MetaEntry(name, last.node.digest,
                                         last.outcome.company.val,
                                         last.outcome.insurance_type.val)
            /\ Others(entries, name) = Others(last.pre_entries, name)
            /\ Len(entries) = Len(Others(last.pre_entries, name)) + 1
            /\ last.saved
            /\ Len(FileRecords(meta_file)) = Len(entries)
            /\ RecordSet(meta_file) = { entries[i] : i \in 1..Len(entries) }

\* a modify event has replaced the entry of a file by one with another
\* digest, company and type, in a map that holds another entry as well
C24_Witness ==
    /\ pc = "WATCHING"
    /\ last.op = "on_modified"
    /\ last.outcome.entry.some
    /\ Len(entries) = 2
    /\ Len(last.pre_entries) = 2
    /\ \E i \in 1..2 :
          /\ last.pre_entries[i].name = PathName(last.path.val)
          /\ last.pre_entries[i].file_hash # last.outcome.entry.val.file_hash
          /\ last.pre_entries[i].company # last.outcome.entry.val.company
          /\ entries[i] = last.outcome.entry.val

\* C25: a save() that wrote the file has written five lines per entry of the
\* map and no other line: for the i-th entry, in this order, the separator
\* line "---", the name, the hash, the company and the insurance type; the
\* number of records is the number of keys of the map.
C25_FiveLinesPerEntry ==
    (pc = "STORE" /\ last.op # "none" /\ last.saved) =>
        LET lines == SplitLines(meta_file, <<>>)
        IN  /\ Len(lines) = 5 * Len(entries)
            /\ Len(FileRecords(meta_file)) = Len(entries)
            /\ meta_file # <<>> => meta_file[Len(meta_file)] = "\n"
            /\ \A i \in 1..Len(entries) :
                  /\ lines[5 * (i - 1) + 1] = <<"---">>
                  /\ lines[5 * (i - 1) + 2] = entries[i].name
                  /\ lines[5 * (i - 1) + 3] = entries[i].file_hash
                  /\ lines[5 * (i - 1) + 4] = entries[i].company
                  /\ lines[5 * (i - 1) + 5] = entries[i].insurance_type

\* a save() of a map of two entries over the one-record file of a previous
\* run
C25_Witness ==
    /\ pc = "STORE"
    /\ last.op = "save"
    /\ last.saved
    /\ Len(entries) = 2
    /\ last.pre_file = SaveBytes(<<StaleEntry>>)
    /\ Len(SplitLines(meta_file, <<>>)) = 10

\* an extraction of the document raises inside an accessor
ExtractionFails(doc) == doc.corrupt \/ doc.bad # {} \/ doc.full_raises

\* the document with no page when it cannot be opened and an empty first
\* page when the text of that page cannot be extracted
WithoutFailures(doc) ==
    IF doc.corrupt THEN PdfDoc(<<>>, <<>>)
    ELSE [doc EXCEPT
            !.full = IF doc.full_raises THEN <<>> ELSE doc.full,
            !.full_raises = FALSE]

\* what detect_company returns when the regions that cannot be extracted are
\* left out: the name of the first profile, in configured order, one of
\* whose other regions contains it
FirstMatchSkippingFailures(config, doc) ==
    LET M == MatchingPairs(config, doc)
    IN  IF M = {} THEN None
        ELSE Some(config[(CHOOSE p \in M :
                            \A q \in M : q = p \/ Before(p, q))[1]].company)

\* C26: an extraction that raises is a classification miss and nothing more.
\* detect_company leaves out each region whose extraction raised, as it does
\* for a region of an absent page, and goes on with the next region and the
\* next profile; detect_insurance_type answers as if the first page were
\* empty; and extract_metadata on a readable file returns without raising,
\* with the company found in the regions that could be extracted.
C26_ExtractionFailureIsMiss ==
    /\ (pc = "CLASSIFY" /\ last.op = "detect_company"
          /\ ExtractionFails(last.doc)) =>
            /\ last.result = FirstMatchSkippingFailures(companies_config,
                                                        last.doc)
            /\ last.doc.corrupt => last.result = None
    /\ (pc = "CLASSIFY" /\ last.op = "detect_insurance_type"
          /\ ExtractionFails(last.doc)) =>
            /\ last.result = detect_insurance_type(companies_config,
                                                   WithoutFailures(last.doc),
                                                   last.company_name)
            /\ (last.doc.corrupt \/ last.doc.full_raises) =>
                  \A t \in FullTexts \ {<<>>} :
                      last.result = detect_insurance_type(
                                        companies_config, PdfDoc(<<>>, t),
                                        last.company_name)
    /\ (pc = "CLASSIFY" /\ last.op = "process_pdf"
          /\ last.node.kind = "file" /\ ExtractionFails(last.node.doc)) =>
            /\ ~last.outcome.raised
            /\ last.outcome.company =
                 FirstMatchSkippingFailures(companies_config, last.node.doc)
            /\ last.outcome =
                 extract_metadata(companies_config, last.path.val,
                                  File(last.node.digest,
                                       WithoutFailures(last.node.doc)))
            /\ (last.node.doc.corrupt => ~last.outcome.entry.some)

\* the first region of the first profile could not be extracted, the company
\* was found in a later region and the file got its entry
C26_Witness ==
    /\ pc = "CLASSIFY"
    /\ last.op = "process_pdf"
    /\ last.node.kind = "file"
    /\ <<1, "r1">> \in last.node.doc.bad
    /\ ~last.node.doc.full_raises
    /\ last.outcome.entry.some
    /\ HasKey(entries, PathName(PathA))

\* the text of the first page could not be extracted: the company is found,
\* the type is not, and the call returns without an entry
C26_WitnessFullPage ==
    /\ pc = "CLASSIFY"
    /\ last.op = "process_pdf"
    /\ last.node.kind = "file"
    /\ last.node.doc.full_raises
    /\ last.outcome.company.some
    /\ ~last.outcome.insurance_type.some
    /\ ~last.outcome.raised
    /\ entries = last.pre_entries

\* the handler method the observer thread calls for an event
HandlerOf(event) ==
    CASE event.kind = "created"  -> "on_created"
      [] event.kind = "modified" -> "on_modified"
      [] event.kind = "deleted"  -> "on_deleted"

\* the steps the two threads have left before the process ends, once
\* observer.stop() has been called
StepsToExit ==
    IF pc = "STOPPING" THEN (IF handling.some THEN 2 ELSE 1)
    ELSE IF pc = "STOPPED" THEN 0
    ELSE 3

\* C27: the interrupt stops the subscription and cancels nothing.  The step
\* that takes main() out of WATCHING stops the observer and leaves the event
\* being handled, the map and the index file as they are; from then on no
\* event is queued and no handling begins; an event being handled ends only
\* by its own handler, which for a document that classifies has put the
\* entry into the map and flushed the map to the index file; the process
\* ends, with status 0, only when no event is being handled.  The process
\* does end: between observer.stop() and the exit, the event being handled
\* is one that has a handler method (whose step needs nothing else), or else
\* observer.join() can return; each of these steps brings the exit nearer and
\* no other step takes it further away.
C27_ShutdownKeepsInFlight ==
    /\ [][ /\ (pc = "WATCHING" /\ pc' # "WATCHING") =>
                /\ pc' = "STOPPING"
                /\ observer' = "stopping"
                /\ handling' = handling
                /\ entries' = entries
                /\ meta_file' = meta_file
           /\ observer # "running" =>
                /\ event_queue' = <<>>
                /\ handling' = handling \/ handling' = None
           /\ (handling.some /\ handling' # handling) =>
                /\ handling' = None
                /\ last'.op = HandlerOf(handling.val)
                /\ last'.path = Some(handling.val.src_path)
                /\ last'.outcome.entry.some =>
                      /\ HasKey(entries', last'.outcome.entry.val.name)
                      /\ last'.saved
                      /\ meta_file' = SaveBytes(entries')
           /\ (pc # "STOPPED" /\ pc' = "STOPPED") =>
                /\ pc = "STOPPING"
                /\ handling = None
                /\ exit_code' = 0
           /\ StepsToExit' <= StepsToExit \/ pc = "WATCHING"
           /\ (pc = "STOPPING" /\ (handling' # handling \/ pc' # pc)) =>
                StepsToExit' < StepsToExit
         ]_vars
    /\ [](pc = "STOPPED" => handling = None /\ observer = "stopped")
    /\ []((pc = "STOPPING" /\ handling.some) =>
              handling.val.kind \in {"created", "modified", "deleted"})
    /\ []((pc = "STOPPING" /\ handling = None) => ENABLED Join)

\* the process has ended after the interrupt came while on_created was in its
\* settle delay: the handler ran after observer.stop(), the document has its
\* entry and the index file holds the map
C27_Witness ==
    /\ pc = "STOPPED"
    /\ exit_code = 0
    /\ last.op = "on_created"
    /\ last.observer = "stopping"
    /\ last.outcome.entry.some
    /\ last.saved
    /\ HasKey(entries, last.outcome.entry.val.name)
    /\ ~HasKey(last.pre_entries, last.outcome.entry.val.name)
    /\ meta_file = SaveBytes(entries)

\* the entries of the map, as a set
EntrySet(dict) == { dict[i] : i \in 1..Len(dict) }

\* C28: when main() has started the observer and no event has been handled
\* yet, the index file holds one record per entry of the map and no other
\* record, whatever the index file held before the program started and
\* whatever the directory held.
C28_IndexMatchesMapOnWatching ==
    (/\ pc = "WATCHING"
     /\ last.op = "finish_existing") =>
        /\ RecordSet(meta_file) = EntrySet(entries)
        /\ Len(FileRecords(meta_file)) = Len(entries)

\* the top-level PDF files of the directory from which extract_metadata
\* builds an entry
ClassifyingFiles ==
    { p \in Paths :
        /\ fs[p].kind = "file"
        /\ TopLevelPdf(p)
        /\ extract_metadata(companies_config, p, fs[p]).entry.some }

\* C29: while the program watches and has nothing left to do (no event
\* queued, none being handled), every top-level PDF of the directory that
\* classifies has an entry in the map under its file name.  In such a state
\* no step of the program is pending, so a file without an entry stays
\* without one until another program touches it.
C29_EveryPdfGetsEntry ==
    (/\ pc = "WATCHING"
     /\ event_queue = <<>>
     /\ handling = None) =>
        \A p \in ClassifyingFiles : HasKey(entries, PathName(p))

\* C30: a file of any name is returned by the listing of the startup pass,
\* which then classifies it, exactly when a create event for it makes
\* on_created classify it.
C30_PassAndHandlerAgree ==
    (pc = "CLASSIFY" /\ last.op = "path") => (last.listed <=> last.handled)

\* the events waiting or being handled that the program's own writes caused
OwnEventsPending ==
    Cardinality({ i \in 1..Len(event_queue) :
                    event_queue[i].src_path = PathMeta })
    + (IF handling.some /\ handling.val.src_path = PathMeta THEN 1 ELSE 0)

\* C31: the index file lies in the watched directory, and the event the
\* observer emits for a write of it is ignored by its handler:
\* extract_metadata is not called, nothing is flushed, and the map and the
\* index file stay as they are.  So the flushes are at most one for the
\* startup pass and one per file operation of another program, the events
\* emitted are at most two per such operation, and an event of the index file
\* is pending only after a flush made by a handler.
C31_NoFeedbackFromOwnWrites ==
    pc \in {"STARTING", "RECONCILING", "RECONCILED", "WATCHING", "STOPPING",
            "STOPPED", "EXITED"} =>
        /\ PathMeta.parent = WatchDir
        /\ (last # NoCall /\ last.op \in HandlerOps
               /\ last.path.val = PathMeta) =>
              /\ ~last.is_directory
              /\ ~last.outcome.called
              /\ ~last.saved
              /\ entries = last.pre_entries
              /\ meta_file = last.pre_file
        /\ saves <= ops + 1
        /\ Len(event_queue) + (IF handling.some THEN 1 ELSE 0) <= 2 * ops
        /\ OwnEventsPending <= saves

\* the program is idle after the event of its own flush: a handler put an
\* entry into the map and flushed it, the event of that write has been
\* handled and ignored, and nothing is queued or being handled
C31_Witness ==
    /\ pc = "WATCHING"
    /\ last.op \in {"on_created", "on_modified"}
    /\ last.path.val = PathMeta
    /\ saves >= 1
    /\ entries # <<>>
    /\ meta_file = SaveBytes(entries)
    /\ event_queue = <<>>
    /\ handling = None

\* the names of the profiles of a configuration
ProfileNames(config) == { config[i].company : i \in 1..Len(config) }

\* C32: detect_company returns None or the non-empty name of a profile of
\* the configuration, and when a profile with a non-empty name has a region
\* that contains its name, the result is such a name: a profile whose name is
\* missing or empty does not stand in the way.
C32_CompanyIsNamedProfile ==
    (pc = "CLASSIFY" /\ last.op = "detect_company") =>
        /\ last.result.some =>
              /\ last.result.val # <<>>
              /\ last.result.val \in ProfileNames(companies_config)
        /\ (\E p \in MatchingPairs(companies_config, last.doc) :
                companies_config[p[1]].company # <<>>) =>
              Truthy(last.result)

\* C33: load() applied to the file that save() wrote gives back the map that
\* was saved: the same keys in the same order and, under each key, the same
\* name, hash, company and insurance type.
C33_LoadAfterSave ==
    (pc = "LOADED" /\ last.op = "load"
        /\ last.pre_file = SaveBytes(last.pre_entries)) =>
        /\ entries = last.pre_entries
        /\ \A i \in 1..Len(last.pre_entries) :
              HasKey(entries, last.pre_entries[i].name)

====
